---------------------------- MODULE Spec2Model ----------------------------
(***************************************************************************)
(* Model of the TAG backend request pipeline: the LangGraph workflow of    *)
(* app/workflow/graph.py and its nodes, the chat service that drives it,   *)
(* the SQL cache (SemanticCache), the query refiner and the SQL validator. *)
(*                                                                         *)
(* Text is a sequence of one-character strings, so that substring search,  *)
(* case folding, stripping and concatenation are computed as Python does.  *)
(***************************************************************************)
EXTENDS Integers, Sequences, FiniteSets, TLC

(***************************************************************************)
(* Bounds of the model.                                                    *)
(***************************************************************************)
\* requests served one after the other in a run
MaxRequests == 2
\* how often the environment lets the synthesizer be entered in one request
\* (never reached by the code: the retry gate stops far earlier)
MaxSynthRuns == 5
\* rows a statement can return
MaxRows == 1
\* children of a parse-tree node
MaxChildren == 2

(***************************************************************************)
(* Program constants.                                                      *)
(***************************************************************************)
\* the literal 3 of the retry gate
max_retries == 3
\* metadata.get("limit", 15)
DefaultLimit == 15

(***************************************************************************)
(* Python values.                                                          *)
(***************************************************************************)
\* Python's None where a text is expected (no text has a 4-character element)
None == << "None" >>
\* company_id absent from the metadata (metadata.get("company_id") is None)
NoCompany == -1

\* Python truthiness of an optional text: None and "" are falsy
Truthy(t) == t # None /\ t # << >>
\* Python truthiness of an optional integer: None and 0 are falsy
TruthyInt(n) == n # NoCompany /\ n # 0

UpperChars == <<"A","B","C","D","E","F","G","H","I","J","K","L","M",
                "N","O","P","Q","R","S","T","U","V","W","X","Y","Z">>
LowerChars == <<"a","b","c","d","e","f","g","h","i","j","k","l","m",
                "n","o","p","q","r","s","t","u","v","w","x","y","z">>

\* str.lower() on one character
LowerCh(c) ==
    IF \E i \in 1..26 : UpperChars[i] = c
    THEN LowerChars[CHOOSE i \in 1..26 : UpperChars[i] = c]
    ELSE c
\* str.upper() on one character
UpperCh(c) ==
    IF \E i \in 1..26 : LowerChars[i] = c
    THEN UpperChars[CHOOSE i \in 1..26 : LowerChars[i] = c]
    ELSE c
\* str.lower()
Lower(s) == [i \in 1..Len(s) |-> LowerCh(s[i])]
\* str.upper()
Upper(s) == [i \in 1..Len(s) |-> UpperCh(s[i])]

IsSpace(c) == c = " "

\* str.strip(): leading and trailing whitespace removed
Strip(s) ==
    LET idx == {i \in 1..Len(s) : ~IsSpace(s[i])}
    IN  IF idx = {} THEN << >>
        ELSE LET lo == CHOOSE i \in idx : \A j \in idx : i <= j
                 hi == CHOOSE i \in idx : \A j \in idx : j <= i
             IN  SubSeq(s, lo, hi)

\* the Python expression  sub in s
Contains(sub, s) ==
    \E i \in 0..(Len(s) - Len(sub)) : SubSeq(s, i + 1, i + Len(sub)) = sub

\* str.startswith
StartsWith(s, p) == Len(s) >= Len(p) /\ SubSeq(s, 1, Len(p)) = p

Digits == <<"0","1","2","3","4","5","6","7","8","9">>
\* str(n) of an integer 0 <= n < 100
StrNat(n) ==
    IF n < 10 THEN << Digits[n + 1] >>
    ELSE << Digits[(n \div 10) + 1], Digits[(n % 10) + 1] >>
\* f"{company_id}": str() of an optional integer
StrOptInt(n) == IF n = NoCompany THEN <<"N","o","n","e">> ELSE StrNat(n)
\* f"{x}" of an optional text
StrOptText(t) == IF t = None THEN <<"N","o","n","e">> ELSE t


(***************************************************************************)
(* Query refiner (app/services/query_refiner.py).                          *)
(***************************************************************************)
kwSELECT == <<"S","E","L","E","C","T">>
kwINSERT == <<"I","N","S","E","R","T">>
kwUPDATE == <<"U","P","D","A","T","E">>
kwWHERE  == <<"W","H","E","R","E">>
kwSKIP   == <<"S","K","I","P">>

\* the replacement text  f"WHERE company_id = {company_id} AND "
WhereAndClause(company_id) ==
    <<"W","H","E","R","E"," ","c","o","m","p","a","n","y","_","i","d"," ","="," ">>
    \o StrOptInt(company_id) \o <<" ","A","N","D"," ">>
\* the appended text  f" WHERE company_id = {company_id}"
WhereClause(company_id) ==
    <<" ","W","H","E","R","E"," ","c","o","m","p","a","n","y","_","i","d"," ","="," ">>
    \o StrOptInt(company_id)

\* re.sub(r"(?i)WHERE\s+", repl, sql, count=1): the first WHERE (any case)
\* that is followed by whitespace, with all that whitespace, is replaced;
\* with no such match the text is returned as it is
re_sub_where(sql, repl) ==
    LET U    == Upper(sql)
        hits == {i \in 1..(Len(sql) - 5) :
                    SubSeq(U, i, i + 4) = kwWHERE /\ IsSpace(sql[i + 5])}
    IN  IF hits = {} THEN sql
        ELSE LET i    == CHOOSE h \in hits : \A g \in hits : h <= g
                 ends == {j \in (i + 5)..Len(sql) :
                             \A k \in (i + 5)..j : IsSpace(sql[k])}
                 e    == CHOOSE j \in ends : \A k \in ends : k <= j
             IN  SubSeq(sql, 1, i - 1) \o repl \o SubSeq(sql, e + 1, Len(sql))

\* a refiner that injects the filter without looking for the tenant id in
\* the statement
apply_ironclad_heuristics_unchecked(sql_query, resolved_persons, company_id) ==
    IF ~Truthy(sql_query) \/ ~Contains(kwSELECT, Upper(sql_query))
    THEN sql_query
    ELSE IF TruthyInt(company_id)
         THEN IF Contains(kwWHERE, Upper(sql_query))
              THEN re_sub_where(sql_query, WhereAndClause(company_id))
              ELSE sql_query \o WhereClause(company_id)
         ELSE sql_query

apply_ironclad_heuristics(sql_query, resolved_persons, company_id) ==
    IF ~Truthy(sql_query) \/ ~Contains(kwSELECT, Upper(sql_query))
    THEN sql_query
    ELSE IF TruthyInt(company_id) /\ ~Contains(StrOptInt(company_id), sql_query)
         THEN IF Contains(kwWHERE, Upper(sql_query))
              THEN re_sub_where(sql_query, WhereAndClause(company_id))
              ELSE sql_query \o WhereClause(company_id)
         ELSE sql_query

(***************************************************************************)
(* SQL cache (app/services/cache_service.py) and its key.                  *)
(***************************************************************************)
Colon == << ":" >>

\* cache_key_str of GenerateSQLNode.run
cache_key_str(company_id, db_user_id, user_role, input_text) ==
    StrOptInt(company_id) \o Colon \o db_user_id \o Colon \o user_role
    \o Colon \o Lower(Strip(input_text))

\* the Redis key SemanticCache.get and SemanticCache.set build from a query
SemanticCache_key(query) ==
    <<"c","a","c","h","e",":">> \o Lower(Strip(query))

\* redis.get on a store kept as a function from keys to values
StoreGet(store, key) == IF key \in DOMAIN store THEN store[key] ELSE None
\* redis.set
StoreSet(store, key, value) ==
    [k \in DOMAIN store \cup {key} |-> IF k = key THEN value ELSE store[k]]

\* SemanticCache.get: a store failure is caught and None returned
SemanticCache_get(store, query, store_up) ==
    IF store_up THEN StoreGet(store, SemanticCache_key(query)) ELSE None
\* SemanticCache.set: a store failure is caught and nothing stored
SemanticCache_set(store, query, response, store_up) ==
    IF store_up THEN StoreSet(store, SemanticCache_key(query), response) ELSE store

\* whether a call of SemanticCache.get raises to its caller: the except
\* clause catches every failure of the store
SemanticCache_get_raises(store_up) == FALSE
\* a set whose failure of the store reaches the caller
SemanticCache_set_uncaught(store_up) == ~store_up
\* whether a call of SemanticCache.set raises to its caller
SemanticCache_set_raises(store_up) == FALSE

(***************************************************************************)
(* SQL validator (app/services/sql_validator.py).  A parse tree is a node  *)
(* [type, name, children]; parse_one either raises (ParseError) or gives   *)
(* the tree of the statement.                                              *)
(***************************************************************************)
Node(t, n, ch) == [type |-> t, name |-> n, children |-> ch]
ParseError == Node("ParseError", "", << >>)

forbidden_commands == {"Drop", "Delete", "Alter", "Create"}

\* Expression.walk(): the node and all its descendants
RECURSIVE walk(_)
walk(node) ==
    {node} \cup UNION {walk(node.children[i]) : i \in 1..Len(node.children)}

\* [t.name for t in parsed.find_all(exp.Table)]
find_all_tables(parsed) == {n.name : n \in {m \in walk(parsed) : m.type = "Table"}}

\* an allowed_tables argument: None, or a list of table names
NoList == [none |-> TRUE, items |-> << >>]
List(items) == [none |-> FALSE, items |-> items]
Range(seq) == {seq[i] : i \in 1..Len(seq)}

\* SQLValidatorService.__init__: set(allowed_tables) if allowed_tables else None
SQLValidatorService_init(allowed_tables) ==
    IF allowed_tables.none \/ allowed_tables.items = << >>
    THEN [has_allowed |-> FALSE, allowed_tables |-> {}]
    ELSE [has_allowed |-> TRUE, allowed_tables |-> Range(allowed_tables.items)]

\* a validator that looks at the class of the statement only, not at its tree
validate_parsed_top_level(self, parsed) ==
    IF parsed = ParseError THEN FALSE
    ELSE IF parsed.type \in forbidden_commands THEN FALSE
    ELSE IF self.has_allowed /\ self.allowed_tables # {}
         THEN \A table \in find_all_tables(parsed) : table \in self.allowed_tables
         ELSE TRUE

\* SQLValidatorService.validate_sql on the outcome of sqlglot.parse_one
validate_parsed(self, parsed) ==
    IF parsed = ParseError THEN FALSE
    ELSE IF parsed.type \in forbidden_commands THEN FALSE
    ELSE IF \E node \in walk(parsed) : node.type \in forbidden_commands THEN FALSE
    ELSE IF self.has_allowed /\ self.allowed_tables # {}
         THEN \A table \in find_all_tables(parsed) : table \in self.allowed_tables
         ELSE TRUE


\* the element of a one-element set; { e(x) : x \in {v} } names the value v
\* once, so that it is computed once wherever the expression is evaluated
The(S) == CHOOSE x \in S : TRUE

\* tokens of a text: the maximal runs of non-space characters, in order
Tokens(s) ==
    LET EndOf(i) == CHOOSE j \in i..Len(s) :
                        /\ \A k \in i..j : ~IsSpace(s[k])
                        /\ (j = Len(s) \/ IsSpace(s[j + 1]))
        Nth(starts, n) == CHOOSE i \in starts : Cardinality({j \in starts : j < i}) = n - 1
    IN  The({ [n \in 1..Cardinality(starts) |->
                  The({ SubSeq(s, i, EndOf(i)) : i \in {Nth(starts, n)} })]
              : starts \in {{i \in 1..Len(s) :
                                ~IsSpace(s[i]) /\ (i = 1 \/ IsSpace(s[i - 1]))}} })

\* the expression class sqlglot gives a statement that starts with this keyword
StatementType(tok) ==
    LET u == Upper(tok)
    IN  CASE u = kwSELECT -> "Select"
          [] u = kwINSERT -> "Insert"
          [] u = kwUPDATE -> "Update"
          [] u = <<"D","R","O","P">> -> "Drop"
          [] u = <<"D","E","L","E","T","E">> -> "Delete"
          [] u = <<"A","L","T","E","R">> -> "Alter"
          [] u = <<"C","R","E","A","T","E">> -> "Create"
          [] OTHER -> "ParseError"

\* sqlglot.parse_one on the statements of this model (single statements with
\* no sub-query): the statement's class, with one Table node for each name
\* that follows FROM, TABLE, INTO or UPDATE; anything else fails to parse
parse_one(sql) ==
    LET intro == {<<"F","R","O","M">>, <<"T","A","B","L","E">>,
                  <<"I","N","T","O">>, kwUPDATE}
        is_table(toks, i) == i > 1 /\ Upper(toks[IF i > 1 THEN i - 1 ELSE 1]) \in intro
        tables(toks) ==
            The({ [k \in 1..Cardinality(at) |->
                      Node("Table",
                           toks[CHOOSE i \in at : Cardinality({j \in at : j < i}) = k - 1],
                           << >>)]
                  : at \in {{i \in 1..Len(toks) : is_table(toks, i)}} })
    IN  The({ IF toks = << >> \/ StatementType(toks[1]) = "ParseError"
              THEN ParseError
              ELSE Node(StatementType(toks[1]), "", tables(toks))
              : toks \in {Tokens(sql)} })

\* SQLValidatorService.validate_sql
validate_sql(self, sql) ==
    The({ validate_parsed(self, parsed) : parsed \in {parse_one(sql)} })

(***************************************************************************)
(* The requests, the replies of the language model and the other inputs    *)
(* the environment can give.                                               *)
(***************************************************************************)
txtShowUsers  == <<"s","h","o","w"," ","u","s","e","r","s">>
txtShowUsers2 == <<" ","S","h","o","w"," ","U","s","e","r","s">>
txtHello      == <<"h","e","l","l","o">>
txtAdmin      == <<"a","d","m","i","n">>
txtAdminCap   == <<"A","d","m","i","n">>
txtU1         == <<"u","1">>
txtUnknown    == <<"u","n","k","n","o","w","n">>
txtUser       == <<"u","s","e","r">>

Metadata(c, u, r, db) ==
    [company_id |-> c, user_id |-> u, user_role |-> r, has_db |-> db]
ChatRequest(sid, msg, md) == [session_id |-> sid, message |-> msg, metadata |-> md]

\* the requests a run draws from
Requests ==
    { ChatRequest("s1", txtShowUsers,  Metadata(5, txtU1, txtAdmin, TRUE)),
      ChatRequest("s2", txtShowUsers2, Metadata(5, txtU1, txtAdminCap, TRUE)),
      ChatRequest("s1", txtShowUsers,  Metadata(7, txtU1, txtAdmin, TRUE)),
      ChatRequest("s2", txtHello,      Metadata(NoCompany, None, None, FALSE)) }
NoRequest == ChatRequest("", << >>, Metadata(NoCompany, None, None, FALSE))

\* metadata.get("user_id", "unknown") and metadata.get("user_role", "user")
md_user_id(md) == IF md.user_id = None THEN txtUnknown ELSE md.user_id
md_user_role(md) == IF md.user_role = None THEN txtUser ELSE md.user_role
\* who a request acts for
Identity(md) == << md.company_id, md_user_id(md), md_user_role(md) >>

stmtSelectAll   == <<"S","E","L","E","C","T"," ","*"," ","F","R","O","M"," ","u","s","e","r","s">>
stmtSelectWhere == <<"S","E","L","E","C","T"," ","*"," ","F","R","O","M"," ","u","s","e","r","s",
                     " ","W","H","E","R","E"," ","i","d"," ","="," ","5">>
stmtDrop        == <<"D","R","O","P"," ","T","A","B","L","E"," ","u","s","e","r","s">>
stmtUpdate      == <<"U","P","D","A","T","E"," ","u","s","e","r","s"," ","S","E","T"," ","a"," ","="," ","1">>
txtWhichUser    == <<"w","h","i","c","h"," ","u","s","e","r","?">>

\* a reply of the SQL-generation model: a JSON object {type, content}, or a
\* text with no JSON object in it
JsonReply(t, c) == [json |-> TRUE, type |-> t, content |-> c]
RawReply(c) == [json |-> FALSE, type |-> "", content |-> c]
LLMReplies ==
    { JsonReply("sql", stmtSelectAll), JsonReply("sql", stmtSelectWhere),
      JsonReply("sql", stmtDrop), JsonReply("sql", stmtUpdate),
      JsonReply("text", txtWhichUser), RawReply(stmtDrop) }

\* replies of the routing model
RouterReplies ==
    { <<"S","Q","L">>, <<"*","V","E","C","T","O","R","*">>, <<"C","H","A","T">>,
      <<"h","m","m">> }

\* texts the model does not look into
ErrNoDb      == << "Database connection not configured." >>
ErrPolicy    == << "SQL Query violated safety policy (destructive command or forbidden table)." >>
ErrDb        == << "str(e) of the database exception" >>
ApologyHead  == << "I encountered an error processing your request: " >>
txtAnswer    == << "reply of the language model" >>
txtNoDocs    == << "I searched my knowledge base but couldn't find relevant information regarding your query." >>

HumanMessage(c) == [role |-> "human", content |-> c]
AIMessage(c) == [role |-> "ai", content |-> c]


(***************************************************************************)
(* State.                                                                  *)
(***************************************************************************)
VARIABLES
    workflow,     \* lifespan.workflow: TRUE once create_graph() has run
    served,       \* requests begun so far
    request,      \* the request being served
    pc,           \* "idle", a graph node, "END", "raised" or "token_sent"
    state,        \* the AgentState of the running workflow
    events,       \* the events generate_chat_stream has yielded for the request
    sql_cache,    \* the store behind SemanticCache: key -> statement
    resp_cache,   \* the store behind app.services.cache: key -> result event
    trail,        \* history: the graph nodes run in this request, in order
    sql_writer,   \* history: key -> Identity of the request that wrote the entry
    resp_writer,  \* history: key -> Identity of the request that wrote the entry
    sql_hit,      \* history: Identity behind the SQL-cache entry this request got
    db_log,       \* history: the statements this request ran on the database
    resp_hit,     \* history: Identity behind the response-cache entry it got
    fn_in,        \* argument of the function under check (function specifications)
    fn_out        \* its result

vars == << workflow, served, request, pc, state, events, sql_cache, resp_cache,
           trail, sql_writer, resp_writer, sql_hit, resp_hit, db_log, fn_in, fn_out >>
pipeline_vars == << workflow, served, request, pc, state, events, sql_cache,
                    resp_cache, trail, sql_writer, resp_writer, sql_hit, resp_hit,
                    db_log >>

NoIdentity == << NoCompany, << >>, << >> >>
EmptyStore == [k \in {} |-> None]
Idle == "idle"

\* the AgentState before the inputs are written: every key absent
\* (row_count and rows_preview are -1 while absent; rows_preview is kept as
\* the number of rows in it, toon_data as which part of the codec's output)
EmptyState ==
    [messages |-> << >>, sql_query |-> None, error |-> None, retry_count |-> 0,
     route |-> "unset", rewritten_query |-> None, from_cache |-> FALSE,
     row_count |-> -1, rows_preview |-> -1, toon_data |-> "absent"]

\* a node's return value written into the state: each returned key replaces
\* the state's value (no key of AgentState has a reducer)
Merge(st, upd) == [k \in DOMAIN st |-> IF k \in DOMAIN upd THEN upd[k] ELSE st[k]]

(***************************************************************************)
(* The graph (app/workflow/graph.py).                                      *)
(***************************************************************************)
entry_point(st) == IF Len(st.messages) <= 1 THEN "router" ELSE "contextualize"

route_decision(st) ==
    LET route == IF st.route = "unset" THEN "SQL" ELSE st.route
    IN  IF route = "SQL" THEN "pii_process"
        ELSE IF route = "VECTOR" THEN "vector_search"
        ELSE IF route = "CHAT" THEN "general_chat"
        ELSE "pii_process"

\* a generation gate that asks the synthesizer again after a text outcome
after_generation_again(st) ==
    IF st.sql_query = kwSKIP THEN "generate_sql" ELSE "validate_sql"
\* a generation gate that sends every outcome to validation
after_generation_validates(st) == "validate_sql"
after_generation(st) == IF st.sql_query = kwSKIP THEN "END" ELSE "validate_sql"

\* a validation gate that sends every rejection back to the synthesizer
after_validation_unbounded(st) ==
    IF Truthy(st.error) THEN "generate_sql" ELSE "execute_sql"
\* a validation gate that lets a rejected statement through once retries are spent
after_validation_to_executor(st) ==
    IF Truthy(st.error) /\ st.retry_count < max_retries THEN "generate_sql"
    ELSE "execute_sql"
after_validation(st) ==
    IF Truthy(st.error)
    THEN IF st.retry_count < max_retries THEN "generate_sql" ELSE "generate_response"
    ELSE "execute_sql"

\* an execution gate that never sends a request back to the synthesizer
after_execution_gives_up(st) == "generate_response"
after_execution(st) ==
    IF Truthy(st.error)
    THEN IF st.retry_count < max_retries THEN "generate_sql" ELSE "generate_response"
    ELSE "generate_response"

\* a node has returned upd: the state is updated and the edge taken
Step(node, upd, next) ==
    /\ state' = Merge(state, upd)
    /\ trail' = Append(trail, node)
    /\ pc' = next
\* a node has raised: workflow.ainvoke raises
Raise(node) ==
    /\ trail' = Append(trail, node)
    /\ pc' = "raised"
    /\ UNCHANGED state

(***************************************************************************)
(* Router (app/workflow/router.py).                                        *)
(***************************************************************************)
intent_keywords ==
    { <<"h","o","w"," ","m","a","n","y">>, <<"c","o","u","n","t">>,
      <<"l","i","s","t">>, <<"s","h","o","w">>, <<"w","h","a","t"," ","i","s">>,
      <<"w","h","a","t"," ","a","r","e">>, <<"a","d","d">>,
      <<"c","r","e","a","t","e">>, <<"a","s","s","i","g","n">>,
      <<"u","p","d","a","t","e">>, <<"d","e","l","e","t","e">>,
      <<"p","e","n","d","i","n","g">>, <<"o","v","e","r","d","u","e">>,
      <<"c","o","m","p","l","e","t","e","d">>, <<"s","t","a","t","u","s">>,
      <<"t","a","s","k">>, <<"u","s","e","r">>, <<"a","s","s","e","t">>,
      <<"f","a","c","i","l","i","t","y">>,
      <<"m","a","i","n","t","e","n","a","n","c","e">> }

\* str.replace(c, "") for a one-character c
RemoveChar(s, c) == SelectSeq(s, LAMBDA x : x # c)

\* state.get("rewritten_query") or messages[-1].content
last_message_of(st) ==
    IF Truthy(st.rewritten_query) THEN st.rewritten_query
    ELSE st.messages[Len(st.messages)].content

heuristic_match(text) == \E kw \in intent_keywords : Contains(kw, Lower(text))

\* a reading of the reply that takes a reply with no label for SQL
route_of_reply_default_sql(raw_content) ==
    LET clean_content == Upper(RemoveChar(Strip(raw_content), "*"))
    IN  IF Contains(<<"S","Q","L">>, clean_content) THEN "SQL"
        ELSE IF Contains(<<"V","E","C","T","O","R">>, clean_content) THEN "VECTOR"
        ELSE IF Contains(<<"C","H","A","T">>, clean_content) THEN "CHAT"
        ELSE "SQL"
\* the route read from the model's reply (the replies of the model hold no
\* backquote, the other character the code removes)
route_of_reply(raw_content) ==
    LET clean_content == Upper(RemoveChar(Strip(raw_content), "*"))
    IN  IF Contains(<<"S","Q","L">>, clean_content) THEN "SQL"
        ELSE IF Contains(<<"V","E","C","T","O","R">>, clean_content) THEN "VECTOR"
        ELSE IF Contains(<<"C","H","A","T">>, clean_content) THEN "CHAT"
        ELSE "CHAT"

\* RouterNode.route_query on the state st: the update it returns when the
\* model answers (llm_ok) with reply, or raises
RouterNode_update(st, llm_ok, reply) ==
    IF heuristic_match(last_message_of(st)) THEN [route |-> "SQL"]
    ELSE IF llm_ok THEN [route |-> route_of_reply(reply)]
    ELSE [route |-> "CHAT"]

RouterNode_route_query ==
    /\ pc = "router"
    /\ \E llm_ok \in BOOLEAN : \E reply \in RouterReplies :
       \E upd \in {RouterNode_update(state, llm_ok, reply)} :
          Step("router", upd, route_decision(Merge(state, upd)))
    /\ UNCHANGED << workflow, served, request, events, sql_cache, resp_cache,
                    sql_writer, resp_writer, sql_hit, resp_hit, db_log, fn_in, fn_out >>

(***************************************************************************)
(* PII node (app/workflow/nodes/pii_node.py).                              *)
(***************************************************************************)
\* PIIService.sanitize: both patterns need an "@" or a digit to match, so a
\* text with neither is returned as it is; any other text has its matches
\* replaced, which the model keeps as one redacted text
pii_sanitize(text) ==
    IF \E i \in 1..Len(text) : text[i] = "@" \/ text[i] \in Range(Digits)
    THEN << "<", "P", "I", "I", ">" >>
    ELSE text

PIINode_run ==
    /\ pc = "pii_process"
    /\ LET n == Len(state.messages)
           last == state.messages[n]
           msgs == IF last.role = "human"
                   THEN [state.messages EXCEPT ![n].content = pii_sanitize(last.content)]
                   ELSE state.messages
       IN  Step("pii_process", [messages |-> msgs], "generate_sql")
    /\ UNCHANGED << workflow, served, request, events, sql_cache, resp_cache,
                    sql_writer, resp_writer, sql_hit, resp_hit, db_log, fn_in, fn_out >>


(***************************************************************************)
(* SQL synthesizer (app/workflow/nodes/sql_node.py).                       *)
(***************************************************************************)
\* s.split("\n")[0]
FirstLine(s) ==
    LET nl == {i \in 1..Len(s) : s[i] = "\n"}
    IN  IF nl = {} THEN s
        ELSE SubSeq(s, 1, (CHOOSE i \in nl : \A j \in nl : i <= j) - 1)

\* the reply of the model parsed: a JSON object is a statement when its type
\* is "sql" and a clarification otherwise; a reply with no JSON object is a
\* statement when its first line starts with SELECT, INSERT or UPDATE
parse_reply(reply) ==
    IF reply.json
    THEN IF reply.type = "sql"
         THEN [is_text_response |-> FALSE, sql_query |-> reply.content,
               text_response |-> << >>]
         ELSE [is_text_response |-> TRUE, sql_query |-> << >>,
               text_response |-> reply.content]
    ELSE LET raw_content == Strip(reply.content)
             cleaned == Upper(FirstLine(Strip(raw_content)))
         IN  IF \E kw \in {kwSELECT, kwINSERT, kwUPDATE} : StartsWith(cleaned, kw)
             THEN [is_text_response |-> FALSE, sql_query |-> Strip(raw_content),
                   text_response |-> << >>]
             ELSE [is_text_response |-> TRUE, sql_query |-> << >>,
                   text_response |-> raw_content]

\* lines 106-109: the text about the previous failure that goes into the
\* prompt of the model
error_context(st) ==
    IF Truthy(st.error) /\ st.retry_count > 0
    THEN << "\nThe previous query failed with error: " >> \o st.error
         \o << ". Please fix the SQL." >>
    ELSE << >>

\* the key the node looks up and writes
node_cache_key(st, md) ==
    cache_key_str(md.company_id, md_user_id(md), md_user_role(md), last_message_of(st))

\* the key of the store under which the node's key is kept
cache_slot(st, md) == SemanticCache_key(node_cache_key(st, md))

\* the cache is read on the first attempt only
cache_lookup_due(st) == st.retry_count = 0
\* a cached value is used unless it is empty or holds SKIP
cache_hit(cached_sql) == Truthy(cached_sql) /\ ~Contains(kwSKIP, cached_sql)
\* a write of every statement, whatever the state holds
cache_write_always(st, sql_query) == Truthy(sql_query)
\* the statement is written to the cache when no error is in the state
cache_write_due(st, sql_query) == Truthy(sql_query) /\ ~Truthy(st.error)

update_no_db == [error |-> ErrNoDb]
update_cache_hit(cached_sql) ==
    [sql_query |-> cached_sql, retry_count |-> 0, error |-> None, from_cache |-> TRUE]
update_text(text_response) ==
    [sql_query |-> kwSKIP, messages |-> << AIMessage(text_response) >>, retry_count |-> 0]
update_sql(st, sql_query) ==
    [sql_query |-> sql_query, retry_count |-> st.retry_count + 1]

Count(seq, x) == Cardinality({i \in 1..Len(seq) : seq[i] = x})
synth_runs == Count(trail, "generate_sql")

\* what the node's collaborators do in one run: whether the schema lookup,
\* the cache store on get and on set, and the model answer, and the model's reply
SynthEnv(schema_ok, get_up, set_up, llm_ok, reply) ==
    [schema_ok |-> schema_ok, get_up |-> get_up, set_up |-> set_up,
     llm_ok |-> llm_ok, reply |-> reply]
SynthEnvs(replies) ==
    {SynthEnv(schema_ok, get_up, set_up, llm_ok, reply) :
        schema_ok \in BOOLEAN, get_up \in BOOLEAN, set_up \in BOOLEAN,
        llm_ok \in BOOLEAN, reply \in replies}

\* the end of one run of the node: whether it raised, the update it returned,
\* the cache after it, whether the lookup hit, whether the statement was
\* stored, and the collaborators it called, in order
SynthOutcome(raised, update, cache, hit, wrote, calls) ==
    [raised |-> raised, update |-> update, cache |-> cache, hit |-> hit,
     wrote |-> wrote, calls |-> calls]

\* GenerateSQLNode.run on the state st of a request with metadata md
GenerateSQLNode_outcome(st, md, cache, env) ==
    LET key == node_cache_key(st, md)
        cached_sql == IF cache_lookup_due(st)
                      THEN SemanticCache_get(cache, key, env.get_up)
                      ELSE None
        looked == IF cache_lookup_due(st) THEN << "schema", "cache_get" >>
                  ELSE << "schema" >>
        parsed == parse_reply(env.reply)
        sql_query == apply_ironclad_heuristics(parsed.sql_query, << >>, md.company_id)
    IN  IF ~md.has_db
        THEN SynthOutcome(FALSE, update_no_db, cache, FALSE, FALSE, << >>)
        ELSE IF ~env.schema_ok
        THEN SynthOutcome(TRUE, update_no_db, cache, FALSE, FALSE, << "schema" >>)
        ELSE IF cache_lookup_due(st) /\ SemanticCache_get_raises(env.get_up)
        THEN SynthOutcome(TRUE, update_no_db, cache, FALSE, FALSE, looked)
        ELSE IF cache_lookup_due(st) /\ cache_hit(cached_sql)
        THEN SynthOutcome(FALSE, update_cache_hit(cached_sql), cache, TRUE, FALSE, looked)
        ELSE IF ~env.llm_ok
        THEN SynthOutcome(TRUE, update_no_db, cache, FALSE, FALSE,
                          looked \o << "person_resolver", "llm" >>)
        ELSE IF parsed.is_text_response
        THEN SynthOutcome(FALSE, update_text(parsed.text_response), cache, FALSE, FALSE,
                          looked \o << "person_resolver", "llm" >>)
        ELSE IF cache_write_due(st, sql_query) /\ SemanticCache_set_raises(env.set_up)
        THEN SynthOutcome(TRUE, update_no_db, cache, FALSE, FALSE,
                          looked \o << "person_resolver", "llm", "cache_set" >>)
        ELSE IF cache_write_due(st, sql_query)
        THEN SynthOutcome(FALSE, update_sql(st, sql_query),
                          SemanticCache_set(cache, key, sql_query, env.set_up),
                          FALSE, env.set_up,
                          looked \o << "person_resolver", "llm", "cache_set" >>)
        ELSE SynthOutcome(FALSE, update_sql(st, sql_query), cache, FALSE, FALSE,
                          looked \o << "person_resolver", "llm" >>)

GenerateSQLNode_run ==
    /\ pc = "generate_sql"
    /\ synth_runs < MaxSynthRuns
    /\ \E schema_ok, get_up, set_up, llm_ok \in BOOLEAN : \E reply \in LLMReplies :
       \E o \in {GenerateSQLNode_outcome(state, request.metadata, sql_cache,
                       SynthEnv(schema_ok, get_up, set_up, llm_ok, reply))} :
          /\ IF o.raised
             THEN Raise("generate_sql")
             ELSE Step("generate_sql", o.update, after_generation(Merge(state, o.update)))
          /\ sql_cache' = o.cache
          /\ sql_writer' = IF o.wrote
                           THEN StoreSet(sql_writer, cache_slot(state, request.metadata),
                                         Identity(request.metadata))
                           ELSE sql_writer
          /\ sql_hit' = IF o.hit THEN sql_writer[cache_slot(state, request.metadata)]
                         ELSE sql_hit
    /\ UNCHANGED << workflow, served, request, events, resp_cache, resp_writer,
                    resp_hit, db_log, fn_in, fn_out >>

(***************************************************************************)
(* Validation node (app/workflow/nodes/validation_node.py).                *)
(***************************************************************************)
ValidateSQLNode_update(st) ==
    LET sql == st.sql_query
    IN  IF ~Truthy(sql) \/ sql = kwSKIP THEN [error |-> None]
        ELSE IF ~validate_sql(SQLValidatorService_init(NoList), sql)
             THEN [error |-> ErrPolicy, retry_count |-> st.retry_count + 1]
             ELSE [error |-> None]

ValidateSQLNode_run ==
    /\ pc = "validate_sql"
    /\ \E upd \in {ValidateSQLNode_update(state)} :
            Step("validate_sql", upd, after_validation(Merge(state, upd)))
    /\ UNCHANGED << workflow, served, request, events, sql_cache, resp_cache,
                    sql_writer, resp_writer, sql_hit, resp_hit, db_log, fn_in, fn_out >>


(***************************************************************************)
(* Execution node (app/workflow/nodes/execution_node.py).                  *)
(***************************************************************************)
\* sql.replace("?", repl, 1)
ReplaceFirst(sql, repl) ==
    LET q == {i \in 1..Len(sql) : sql[i] = "?"}
    IN  IF q = {} THEN sql
        ELSE LET i == CHOOSE j \in q : \A k \in q : j <= k
             IN  SubSeq(sql, 1, i - 1) \o repl \o SubSeq(sql, i + 1, Len(sql))

\* the placeholder auto-fix done before the statement is run
auto_fix(sql, md) ==
    IF ~Contains(<< "?" >>, sql) THEN sql
    ELSE IF Contains(<<"u","s","e","r","_","i","d">>, Lower(sql)) /\ Truthy(md.user_id)
         THEN ReplaceFirst(sql, md.user_id)
    ELSE IF Contains(<<"c","o","m","p","a","n","y","_","i","d">>, Lower(sql))
            /\ TruthyInt(md.company_id)
         THEN ReplaceFirst(sql, StrOptInt(md.company_id))
    ELSE IF Truthy(md.user_id) THEN ReplaceFirst(sql, md.user_id)
    ELSE sql

Min(a, b) == IF a < b THEN a ELSE b
Max(a, b) == IF a > b THEN a ELSE b
\* an index of a slice made a position of a list of n elements: a negative
\* index counts from the end, and both ends are clamped to the list
slice_index(n, i) == IF i < 0 THEN Max(n + i, 0) ELSE Min(i, n)
\* len(rows[start:stop]) of a list of n rows
slice_len(n, start, stop) == Max(slice_index(n, stop) - slice_index(n, start), 0)
\* len(paginated_rows): start_idx = (page - 1) * limit, end_idx = start_idx + limit
paginated_len(n_rows, page, limit) ==
    slice_len(n_rows, (page - 1) * limit, (page - 1) * limit + limit)
\* the requests of the pipeline carry no page and no limit: page 1 and the
\* default limit
preview_len(n_rows) == paginated_len(n_rows, 1, DefaultLimit)

\* the node returns at once when an error is set or there is no statement
execute_skipped(st) == Truthy(st.error) \/ ~Truthy(st.sql_query) \/ st.sql_query = kwSKIP

update_executed(total_count, n_rows) ==
    [row_count |-> total_count, rows_preview |-> preview_len(n_rows),
     toon_data |-> "meta", error |-> None, retry_count |-> 0]
update_exec_failed(st) == [error |-> ErrDb, retry_count |-> st.retry_count + 1]

\* the statement runs and the node returns its rows
ExecuteSQLNode_ok ==
    /\ ~execute_skipped(state)
    /\ \E n_rows \in 0..MaxRows : \E total_count \in {n_rows, MaxRows} :
          Step("execute_sql", update_executed(total_count, n_rows),
               after_execution(Merge(state, update_executed(total_count, n_rows))))
    /\ db_log' = Append(db_log, auto_fix(state.sql_query, request.metadata))
\* conn.execute raises: the statement did not run
ExecuteSQLNode_statement_fails ==
    /\ ~execute_skipped(state)
    /\ Step("execute_sql", update_exec_failed(state),
            after_execution(Merge(state, update_exec_failed(state))))
    /\ UNCHANGED db_log
\* the statement ran, and a later line of the try block raises
ExecuteSQLNode_fails_after ==
    /\ ~execute_skipped(state)
    /\ Step("execute_sql", update_exec_failed(state),
            after_execution(Merge(state, update_exec_failed(state))))
    /\ db_log' = Append(db_log, auto_fix(state.sql_query, request.metadata))
ExecuteSQLNode_skip ==
    /\ execute_skipped(state)
    /\ Step("execute_sql", [k \in {} |-> None], after_execution(state))
    /\ UNCHANGED db_log

ExecuteSQLNode_run ==
    /\ pc = "execute_sql"
    /\ \/ ExecuteSQLNode_ok
       \/ ExecuteSQLNode_statement_fails
       \/ ExecuteSQLNode_fails_after
       \/ ExecuteSQLNode_skip
    /\ UNCHANGED << workflow, served, request, events, sql_cache, resp_cache,
                    sql_writer, resp_writer, sql_hit, resp_hit, fn_in, fn_out >>

(***************************************************************************)
(* Response node, vector search node and chat node.                        *)
(***************************************************************************)
\* an apology that takes the error out of the state
update_apology_clears(st) ==
    [messages |-> << AIMessage(ApologyHead \o st.error) >>, error |-> None]
update_apology(st) == [messages |-> << AIMessage(ApologyHead \o st.error) >>]
update_answer == [messages |-> << AIMessage(txtAnswer) >>]

ResponseNode_run ==
    /\ pc = "generate_response"
    /\ IF Truthy(state.error)
       THEN Step("generate_response", update_apology(state), "END")
       ELSE \/ Step("generate_response", update_answer, "END")
            \/ Raise("generate_response")
    /\ UNCHANGED << workflow, served, request, events, sql_cache, resp_cache,
                    sql_writer, resp_writer, sql_hit, resp_hit, db_log, fn_in, fn_out >>

VectorSearchNode_run ==
    /\ pc = "vector_search"
    /\ \/ Step("vector_search", [messages |-> << AIMessage(txtNoDocs) >>], "END")
       \/ Step("vector_search", [messages |-> << AIMessage(txtAnswer) >>,
                                  toon_data |-> "encoded"], "END")
       \/ Raise("vector_search")
    /\ UNCHANGED << workflow, served, request, events, sql_cache, resp_cache,
                    sql_writer, resp_writer, sql_hit, resp_hit, db_log, fn_in, fn_out >>

GeneralChatNode_run ==
    /\ pc = "general_chat"
    /\ \/ Step("general_chat", update_answer, "END")
       \/ Raise("general_chat")
    /\ UNCHANGED << workflow, served, request, events, sql_cache, resp_cache,
                    sql_writer, resp_writer, sql_hit, resp_hit, db_log, fn_in, fn_out >>


(***************************************************************************)
(* The events of the stream.                                               *)
(***************************************************************************)
\* the "sql" block of a result event (None: present is FALSE); its row_count
\* and rows_preview are copies of the state's and are left out
NoSql == [present |-> FALSE, ran |-> FALSE, cached |-> FALSE, query |-> None]
Event(t, msg, status, sid, sql) ==
    [type |-> t, message |-> msg, status |-> status, session_id |-> sid, sql |-> sql]
ErrorEvent(msg) == Event("error", msg, "", "", NoSql)
TokenEvent(content) == Event("token", content, "", "", NoSql)
\* Python's None where a cached response is expected
NoResponse == Event("none", << >>, "", "", NoSql)

(***************************************************************************)
(* The response cache (app.services.cache) as ChatService uses it.         *)
(***************************************************************************)
\* cache.generate_key(prefix, session_id, message): a key made of its arguments
generate_key(prefix, session_id, message) == << prefix, session_id, message >>
\* cache.get: the stored value, or NoResponse (None) when there is none
cache_get(store, key) == IF key \in DOMAIN store THEN store[key] ELSE NoResponse
\* cache.set
cache_set(store, key, value) == StoreSet(store, key, value)

(***************************************************************************)
(* ChatService.generate_chat_stream (app/services/chat_service.py).        *)
(***************************************************************************)
txtNotInitialized == << "Workflow not initialized" >>
txtRaised == << "str(e) of the exception workflow.ainvoke raised" >>

chat_cache_key(req) == generate_key("chat", req.session_id, req.message)

\* the request history is reset when a request starts
StartRequest(req) ==
    /\ pc = Idle
    /\ served < MaxRequests
    /\ served' = served + 1
    /\ request' = req
    /\ trail' = << >>
    /\ db_log' = << >>
    /\ sql_hit' = NoIdentity

\* lines 18-22: the workflow is not there
GenerateChatStream_not_initialized ==
    \E req \in Requests :
        /\ StartRequest(req)
        /\ ~workflow
        /\ events' = << ErrorEvent(txtNotInitialized) >>
        /\ pc' = Idle
        /\ state' = EmptyState
        /\ resp_hit' = NoIdentity
        /\ UNCHANGED << workflow, sql_cache, resp_cache, sql_writer, resp_writer,
                        fn_in, fn_out >>

\* the cached response as it is yielded
mark_cached(cached_response) ==
    IF cached_response.sql.present
    THEN [cached_response EXCEPT !.sql.cached = TRUE]
    ELSE cached_response

\* lines 24-34: the response cache holds the key
GenerateChatStream_cache_hit ==
    \E req \in Requests :
        /\ StartRequest(req)
        /\ workflow
        /\ cache_get(resp_cache, chat_cache_key(req)) # NoResponse
        /\ events' = << mark_cached(cache_get(resp_cache, chat_cache_key(req))) >>
        /\ resp_hit' = resp_writer[chat_cache_key(req)]
        /\ pc' = Idle
        /\ state' = EmptyState
        /\ UNCHANGED << workflow, sql_cache, resp_cache, sql_writer, resp_writer,
                        fn_in, fn_out >>

\* inputs that carry the previous turn of the session before the message
workflow_inputs_with_history(req) ==
    [messages |-> << HumanMessage(req.message), AIMessage(txtAnswer),
                     HumanMessage(req.message) >>,
     retry_count |-> 0]
workflow_inputs(req) ==
    [messages |-> << HumanMessage(req.message) >>, retry_count |-> 0]

\* lines 36-44: a miss, and the workflow is started on the inputs
GenerateChatStream_invoke ==
    \E req \in Requests :
        /\ StartRequest(req)
        /\ workflow
        /\ cache_get(resp_cache, chat_cache_key(req)) = NoResponse
        /\ events' = << >>
        /\ resp_hit' = NoIdentity
        /\ state' = Merge(EmptyState, workflow_inputs(req))
        /\ pc' = entry_point(Merge(EmptyState, workflow_inputs(req)))
        /\ UNCHANGED << workflow, sql_cache, resp_cache, sql_writer, resp_writer,
                        fn_in, fn_out >>

\* lines 46-51: the workflow has returned; the final message is yielded
GenerateChatStream_token ==
    /\ pc = "END"
    /\ events' = Append(events, TokenEvent(state.messages[Len(state.messages)].content))
    /\ pc' = "token_sent"
    /\ UNCHANGED << workflow, served, request, state, sql_cache, resp_cache, trail,
                    sql_writer, resp_writer, sql_hit, resp_hit, db_log, fn_in, fn_out >>

\* a status that ignores the error left in the state
status_code_always_ok(result) == "ok"
status_code_of(result) == IF Truthy(result.error) THEN "error" ELSE "ok"

sql_data_of(result) ==
    IF Truthy(result.sql_query)
    THEN [present |-> TRUE, ran |-> TRUE, cached |-> result.from_cache,
          query |-> result.sql_query]
    ELSE NoSql

final_event_type == "result"

final_response_of(req, result) ==
    Event(final_event_type, << >>, status_code_of(result), req.session_id,
          sql_data_of(result))

\* a save that stores every response, whatever its status
response_cached_always(status_code) == TRUE
\* only a response with status "ok" is stored
response_cached(status_code) == status_code = "ok"

\* lines 53-85: the result event is built, cached and yielded
GenerateChatStream_result ==
    /\ pc = "token_sent"
    /\ LET final_response == final_response_of(request, state)
           key == chat_cache_key(request)
       IN  /\ events' = Append(events, final_response)
           /\ IF response_cached(final_response.status)
              THEN /\ resp_cache' = cache_set(resp_cache, key, final_response)
                   /\ resp_writer' = StoreSet(resp_writer, key, Identity(request.metadata))
              ELSE UNCHANGED << resp_cache, resp_writer >>
    /\ pc' = Idle
    /\ UNCHANGED << workflow, served, request, state, sql_cache, trail, sql_writer,
                    sql_hit, resp_hit, db_log, fn_in, fn_out >>

\* a handler that logs the exception and yields nothing
GenerateChatStream_except_silent ==
    /\ pc = "raised"
    /\ pc' = Idle
    /\ UNCHANGED << workflow, served, request, state, events, sql_cache, resp_cache,
                    trail, sql_writer, resp_writer, sql_hit, resp_hit, db_log,
                    fn_in, fn_out >>
\* lines 87-89: workflow.ainvoke raised
GenerateChatStream_except ==
    /\ pc = "raised"
    /\ events' = Append(events, ErrorEvent(txtRaised))
    /\ pc' = Idle
    /\ UNCHANGED << workflow, served, request, state, sql_cache, resp_cache, trail,
                    sql_writer, resp_writer, sql_hit, resp_hit, db_log, fn_in, fn_out >>

(***************************************************************************)
(* Start-up (app/core/lifespan.py) and the expiry of cache entries.        *)
(***************************************************************************)
Lifespan ==
    /\ ~workflow
    /\ pc = Idle
    /\ workflow' = TRUE
    /\ UNCHANGED << served, request, pc, state, events, sql_cache, resp_cache, trail,
                    sql_writer, resp_writer, sql_hit, resp_hit, db_log, fn_in, fn_out >>

Drop(store, key) == [k \in DOMAIN store \ {key} |-> store[k]]

\* the ttl of a SQL-cache entry runs out (seen by the next request)
ExpireSql ==
    /\ pc = Idle
    /\ \E k \in DOMAIN sql_cache :
          /\ sql_cache' = Drop(sql_cache, k)
          /\ sql_writer' = Drop(sql_writer, k)
    /\ UNCHANGED << workflow, served, request, pc, state, events, resp_cache, trail,
                    resp_writer, sql_hit, resp_hit, db_log, fn_in, fn_out >>

\* the ttl of a response-cache entry runs out (seen by the next request)
ExpireResponse ==
    /\ pc = Idle
    /\ \E k \in DOMAIN resp_cache :
          /\ resp_cache' = Drop(resp_cache, k)
          /\ resp_writer' = Drop(resp_writer, k)
    /\ UNCHANGED << workflow, served, request, pc, state, events, sql_cache, trail,
                    sql_writer, sql_hit, resp_hit, db_log, fn_in, fn_out >>

(***************************************************************************)
(* The specification of the pipeline.                                      *)
(***************************************************************************)
NoInput == "none"

Init ==
    /\ workflow = FALSE
    /\ served = 0
    /\ request = NoRequest
    /\ pc = Idle
    /\ state = EmptyState
    /\ events = << >>
    /\ sql_cache = EmptyStore
    /\ resp_cache = EmptyStore
    /\ trail = << >>
    /\ sql_writer = EmptyStore
    /\ resp_writer = EmptyStore
    /\ sql_hit = NoIdentity
    /\ resp_hit = NoIdentity
    /\ db_log = << >>
    /\ fn_in = NoInput
    /\ fn_out = NoInput

NodeStep ==
    \/ RouterNode_route_query
    \/ PIINode_run
    \/ GenerateSQLNode_run
    \/ ValidateSQLNode_run
    \/ ExecuteSQLNode_run
    \/ ResponseNode_run
    \/ VectorSearchNode_run
    \/ GeneralChatNode_run

Next ==
    \/ Lifespan
    \/ GenerateChatStream_not_initialized
    \/ GenerateChatStream_cache_hit
    \/ GenerateChatStream_invoke
    \/ NodeStep
    \/ GenerateChatStream_token
    \/ GenerateChatStream_result
    \/ GenerateChatStream_except
    \/ ExpireSql
    \/ ExpireResponse

Spec == Init /\ [][Next]_vars


\* the graph driver runs the next node of a started workflow
LiveSpec == Spec /\ WF_vars(NodeStep)

(***************************************************************************)
(* Properties of the pipeline.                                             *)
(***************************************************************************)
GraphNodes == {"router", "pii_process", "generate_sql", "validate_sql",
               "execute_sql", "generate_response", "vector_search", "general_chat"}
Last(seq) == seq[Len(seq)]
\* the request has been answered: its stream is complete
Answered == pc = Idle /\ served > 0
\* the retry gate gave up: Respond was the last node and the error is set
GaveUp == trail # << >> /\ Last(trail) = "generate_response" /\ Truthy(state.error)

\* C1: the synthesizer node runs at most max_retries + 1 = 4 times in a request
C1_RetryBound == synth_runs <= max_retries + 1
\* a request in which the synthesizer was retried and the gate then gave up
C1_Witness == synth_runs = 2 /\ pc = "generate_response" /\ Truthy(state.error)

\* C2: a started workflow run always comes to its end (END, or an exception
\* out of ainvoke): it cannot stay among generate_sql, validate_sql and
\* execute_sql forever
C2_Terminates == (pc \in GraphNodes) ~> (pc \in {"END", "raised"})
\* a run that looped back to the synthesizer and still reached END
C2_Witness == pc = "END" /\ synth_runs = 2 /\ Truthy(state.error)

\* C3: execute_sql is entered only right after a validate_sql step that left
\* the error cleared, and no statement the validator rejects is ever run
C3_ExecutorAfterValidation ==
    /\ pc = "execute_sql" =>
          /\ Last(trail) = "validate_sql"
          /\ ~Truthy(state.error)
    /\ \A i \in 1..Len(trail) :
          trail[i] = "execute_sql" => i > 1 /\ trail[i - 1] = "validate_sql"
    /\ \A i \in 1..Len(db_log) :
          validate_sql(SQLValidatorService_init(NoList), db_log[i])
\* the executor is entered on the second attempt, after a rejected first one
C3_Witness ==
    pc = "execute_sql" /\ synth_runs = 2 /\ Count(trail, "validate_sql") = 2

\* the tenant filter condition  company_id = <tenant id>
TenantFilter(company_id) ==
    <<"c","o","m","p","a","n","y","_","i","d"," ","="," ">> \o StrOptInt(company_id)
\* the synthesizer has just returned a statement
SynthReturnedStatement ==
    /\ trail # << >> /\ Last(trail) = "generate_sql"
    /\ pc = "validate_sql"
    /\ Truthy(state.sql_query)

\* C4: a statement the synthesizer returns for a role other than super_admin
\* with a tenant id set contains that tenant's filter condition; stated for
\* the statements the validator goes on to accept
C4_TenantFilterPresent ==
    ( /\ SynthReturnedStatement
      /\ validate_sql(SQLValidatorService_init(NoList), state.sql_query)
      /\ md_user_role(request.metadata) # <<"s","u","p","e","r","_","a","d","m","i","n">>
      /\ TruthyInt(request.metadata.company_id) )
    => Contains(TenantFilter(request.metadata.company_id), state.sql_query)

\* C5: a request gets from the SQL cache only what a request with the same
\* company_id, user_id and role has written
C5_SqlCacheIsolation ==
    sql_hit # NoIdentity => sql_hit = Identity(request.metadata)

\* C6: a request gets from the response cache only what a request with the
\* same company_id, user_id and role has stored
C6_ResponseCacheIsolation ==
    resp_hit # NoIdentity => resp_hit = Identity(request.metadata)

Terminal(e) == e.type \in {"result", "error"}

\* C9: the stream of a request is token events and then one terminal event,
\* which is its last event; every answered request has that terminal event
C9_OneTerminalEvent ==
    /\ \A i \in 1..Len(events) :
          /\ events[i].type \in {"token", "result", "error"}
          /\ Terminal(events[i]) => i = Len(events)
    /\ Answered => events # << >> /\ Terminal(Last(events))
\* the four paths: not initialized, response-cache hit, normal, exception
C9_Witness ==
    /\ Answered
    /\ Len(events) = 2
    /\ events[1].type = "token"
    /\ events[2].type = "result"
    /\ events[2].sql.present

tblUsers   == <<"u","s","e","r","s">>
tblOrders  == <<"o","r","d","e","r","s">>
tblSecrets == <<"s","e","c","r","e","t","s">>
TableNames == {tblUsers, tblOrders, tblSecrets}
StatementTypes == {"Select", "Insert", "Update", "Drop", "Delete", "Alter", "Create"}

\* sequences of at most MaxChildren elements of S
ChildSeqs(S) == UNION {[1..k -> S] : k \in 0..MaxChildren}
TableLeaves == {Node("Table", n, << >>) : n \in TableNames}
\* a statement over some tables
FlatTrees == {Node(t, "", ch) : t \in StatementTypes, ch \in ChildSeqs(TableLeaves)}
\* a SELECT with a statement nested in a subquery or a common table expression
NestedTrees ==
    {Node("Select", "", << Node("Subquery", "", << inner >>) >>) :
        inner \in {f \in FlatTrees : Len(f.children) <= 1}}
ParseResults == {ParseError} \cup FlatTrees \cup NestedTrees

AllowLists == {NoList, List(<< >>), List(<< tblUsers >>), List(<< tblUsers, tblOrders >>)}

stmtSelectSecrets == <<"S","E","L","E","C","T"," ","*"," ","F","R","O","M"," ",
                       "s","e","c","r","e","t","s">>
txtGarbage == <<"?","?">>
Statements == {stmtSelectAll, stmtSelectWhere, stmtDrop, stmtUpdate,
               stmtSelectSecrets, txtGarbage, << >>}

ValidatorInput(kind, sql, parsed, allowed) ==
    [kind |-> kind, sql |-> sql, parsed |-> parsed, allowed |-> allowed]
ValidatorInputs ==
    {ValidatorInput("tree", << >>, t, a) : t \in ParseResults, a \in AllowLists}
    \cup {ValidatorInput("text", q, ParseError, a) : q \in Statements, a \in AllowLists}
NotValidated == [done |-> FALSE, value |-> FALSE]

InitValidator ==
    /\ workflow = FALSE
    /\ served = 0
    /\ request = NoRequest
    /\ pc = Idle
    /\ state = EmptyState
    /\ events = << >>
    /\ sql_cache = EmptyStore
    /\ resp_cache = EmptyStore
    /\ trail = << >>
    /\ sql_writer = EmptyStore
    /\ resp_writer = EmptyStore
    /\ sql_hit = NoIdentity
    /\ resp_hit = NoIdentity
    /\ db_log = << >>
    /\ fn_in \in ValidatorInputs
    /\ fn_out = NotValidated

\* validate_sql after sqlglot.parse_one has given the tree fn_in.parsed
ValidateTree ==
    /\ fn_in.kind = "tree"
    /\ ~fn_out.done
    /\ fn_out' = [done |-> TRUE,
                  value |-> validate_parsed(SQLValidatorService_init(fn_in.allowed),
                                            fn_in.parsed)]
    /\ UNCHANGED << pipeline_vars, fn_in >>

\* validate_sql on the text fn_in.sql
ValidateText ==
    /\ fn_in.kind = "text"
    /\ ~fn_out.done
    /\ fn_out' = [done |-> TRUE,
                  value |-> validate_sql(SQLValidatorService_init(fn_in.allowed),
                                         fn_in.sql)]
    /\ UNCHANGED << pipeline_vars, fn_in >>

NextValidator ==
    \/ ValidateTree
    \/ ValidateText

SpecValidator == InitValidator /\ [][NextValidator]_vars

(***************************************************************************)
(* The validator's properties, stated on the tree itself.                  *)
(***************************************************************************)
\* the tree the validator worked on
ParsedInput == IF fn_in.kind = "text" THEN parse_one(fn_in.sql) ELSE fn_in.parsed

\* a Drop, Delete, Alter or Create node at the top or anywhere below it
RECURSIVE HasForbidden(_)
HasForbidden(node) ==
    \/ node.type \in {"Drop", "Delete", "Alter", "Create"}
    \/ \E i \in 1..Len(node.children) : HasForbidden(node.children[i])

\* the names of the tables the tree refers to
RECURSIVE TablesOf(_)
TablesOf(node) ==
    (IF node.type = "Table" THEN {node.name} ELSE {})
    \cup UNION {TablesOf(node.children[i]) : i \in 1..Len(node.children)}

\* C7: validate_sql returns false for every statement that fails to parse and
\* for every statement whose tree holds a Drop, Delete, Alter or Create node
\* at the top or nested; it returns true for every parseable statement with no
\* such node whose tables are all in the allow-list when one is given.
C7_ValidatorTotality ==
    fn_out.done =>
        /\ (ParsedInput = ParseError \/ HasForbidden(ParsedInput)) => ~fn_out.value
        /\ ( /\ ParsedInput # ParseError
             /\ ~HasForbidden(ParsedInput)
             /\ (~fn_in.allowed.none =>
                    TablesOf(ParsedInput) \subseteq Range(fn_in.allowed.items)) )
           => fn_out.value

\* a forbidden statement nested in a SELECT has been rejected
C7_Witness ==
    /\ fn_out.done
    /\ ParsedInput \in NestedTrees
    /\ HasForbidden(ParsedInput)
    /\ ~fn_out.value

\* C8: for every allow-list given to SQLValidatorService, of any length,
\* validate_sql returns false for every statement that refers to a table
\* outside the list.
C8_AllowListEnforced ==
    ( /\ fn_out.done
      /\ ~fn_in.allowed.none
      /\ ParsedInput # ParseError
      /\ \E t \in TablesOf(ParsedInput) : t \notin Range(fn_in.allowed.items) )
    => ~fn_out.value

(***************************************************************************)
(* Error handling and the retry counter.                                   *)
(***************************************************************************)
\* C11: an error event is emitted only when the workflow is not initialized
\* or the retry gate gave up; a failure inside a node never leaves the node
\* as an exception and never produces an error event
C11_NodeFailuresAbsorbed ==
    /\ pc # "raised"
    /\ \A i \in 1..Len(events) :
          events[i].type = "error" =>
              \/ events[i].message = txtNotInitialized
              \/ GaveUp

\* C12: in every reachable state of a request retry_count <= max_retries
C12_RetryCountBounded == state.retry_count <= max_retries

\* the retry gate gave up after the validator rejected every attempt: the
\* executor never ran and the last validation sent the request to Respond
RejectedEveryAttempt ==
    /\ pc = "generate_response"
    /\ Truthy(state.error)
    /\ Last(trail) = "validate_sql"
    /\ Count(trail, "execute_sql") = 0

\* C13: when the validator rejects the statement on every attempt, the
\* synthesizer has run exactly 3 times when the request goes to Respond
C13_ThreeAttemptsOnRejection == RejectedEveryAttempt => synth_runs = 3

\* C14: no step of a node lowers retry_count within a request
C14_RetryCountMonotonic ==
    [][(pc \in GraphNodes) => (state'.retry_count >= state.retry_count)]_vars

(***************************************************************************)
(* The compression codec (app/services/toon.py).  A JSON value is a record *)
(* of one shape: kind is "str", "num", "bool", "null", "arr" or "obj"; an  *)
(* object keeps its members, each a key with its value, as a sequence in   *)
(* insertion order, as a Python dict does.                                 *)
(***************************************************************************)
JValue(kind, s, n, items) == [kind |-> kind, s |-> s, n |-> n, items |-> items]
JStr(s)      == JValue("str", s, 0, << >>)
JNum(n)      == JValue("num", << >>, n, << >>)
JBool(b)     == JValue("bool", << >>, IF b THEN 1 ELSE 0, << >>)
JNull        == JValue("null", << >>, 0, << >>)
JArr(items)  == JValue("arr", << >>, 0, items)
JObj(members) == JValue("obj", << >>, 0, members)
\* a member of an object: a key and its value
Member(key, value) == JValue("member", key, 0, << value >>)
KeyOf(member) == member.s
ValueOf(member) == member.items[1]

\* d[key] = value on a dict kept as a sequence of members: a key already there
\* keeps its place and takes the new value
DictSet(members, key, value) ==
    IF \E i \in 1..Len(members) : KeyOf(members[i]) = key
    THEN [i \in 1..Len(members) |->
             IF KeyOf(members[i]) = key THEN Member(key, value) ELSE members[i]]
    ELSE Append(members, Member(key, value))

\* ToonCodec after the reset of encode: lookup_table = [], reverse_lookup = {}
ToonCodec_reset == [lookup_table |-> << >>, reverse_lookup |-> [k \in {} |-> 0]]

Tilde == << "~" >>

\* a _get_ref that appends the string on every call
ToonCodec_get_ref_always_append(value, self) ==
    [ref  |-> Tilde \o StrNat(Len(self.lookup_table)),
     self |-> [lookup_table |-> Append(self.lookup_table, value),
               reverse_lookup |-> self.reverse_lookup]]

\* ToonCodec._get_ref: the token of the string, and the codec after the call
ToonCodec_get_ref(value, self) ==
    LET after ==
            IF value \notin DOMAIN self.reverse_lookup
            THEN [lookup_table |-> Append(self.lookup_table, value),
                  reverse_lookup |->
                      [k \in DOMAIN self.reverse_lookup \cup {value} |->
                          IF k = value THEN Len(self.lookup_table)
                          ELSE self.reverse_lookup[k]]]
            ELSE self
    IN  [ref |-> Tilde \o StrNat(after.reverse_lookup[value]), self |-> after]

\* ToonCodec._compress_recursive: the encoded node, and the codec after it
RECURSIVE ToonCodec_compress_recursive(_, _)
RECURSIVE compress_members(_, _, _, _)
RECURSIVE compress_items(_, _, _, _)
\* the dict comprehension: for each member the key first, then the value
compress_members(members, i, self, acc) ==
    IF i > Len(members) THEN [node |-> JObj(acc), self |-> self]
    ELSE LET k == ToonCodec_get_ref(KeyOf(members[i]), self)
             v == ToonCodec_compress_recursive(ValueOf(members[i]), k.self)
         IN  compress_members(members, i + 1, v.self, DictSet(acc, k.ref, v.node))
\* the list comprehension
compress_items(items, i, self, acc) ==
    IF i > Len(items) THEN [node |-> JArr(acc), self |-> self]
    ELSE LET v == ToonCodec_compress_recursive(items[i], self)
         IN  compress_items(items, i + 1, v.self, Append(acc, v.node))
ToonCodec_compress_recursive(node, self) ==
    IF node.kind = "obj" THEN compress_members(node.items, 1, self, << >>)
    ELSE IF node.kind = "arr" THEN compress_items(node.items, 1, self, << >>)
    ELSE IF node.kind = "str"
         THEN LET r == ToonCodec_get_ref(node.s, self)
              IN  [node |-> JStr(r.ref), self |-> r.self]
    ELSE [node |-> node, self |-> self]

\* ToonCodec.encode(data)["payload"] for a JSON value (which json.dumps and
\* json.loads leave as it is)
ToonCodec_encode(data) ==
    LET r == ToonCodec_compress_recursive(data, ToonCodec_reset)
    IN  [lookup |-> r.self.lookup_table, data |-> r.node]

\* the value of a run of decimal digits
RECURSIVE NatOfDigits(_, _, _)
NatOfDigits(ds, i, acc) ==
    IF i > Len(ds) THEN acc
    ELSE NatOfDigits(ds, i + 1,
                     acc * 10 + ((CHOOSE d \in 1..10 : Digits[d] = ds[i]) - 1))

\* int(text): an optional sign and at least one decimal digit; anything else
\* raises ValueError (ok is FALSE).  The texts of the model hold no
\* whitespace and no underscore, which int() would also accept.
py_int(text) ==
    LET signed == text # << >> /\ text[1] \in {"+", "-"}
        ds     == IF signed THEN SubSeq(text, 2, Len(text)) ELSE text
        ok     == ds # << >> /\ \A i \in 1..Len(ds) : \E d \in 1..10 : Digits[d] = ds[i]
    IN  IF ~ok THEN [ok |-> FALSE, value |-> 0]
        ELSE [ok |-> TRUE,
              value |-> IF signed /\ text[1] = "-" THEN 0 - NatOfDigits(ds, 1, 0)
                        ELSE NatOfDigits(ds, 1, 0)]

\* a _resolve_ref whose range test leaves out index 0
ToonCodec_resolve_ref_from_one(val, lookup) ==
    IF StartsWith(val, Tilde)
    THEN LET idx == py_int(SubSeq(val, 2, Len(val)))
         IN  IF idx.ok /\ 0 < idx.value /\ idx.value < Len(lookup)
             THEN lookup[idx.value + 1]
             ELSE val
    ELSE val

\* ToonCodec._resolve_ref
ToonCodec_resolve_ref(val, lookup) ==
    IF StartsWith(val, Tilde)
    THEN LET idx == py_int(SubSeq(val, 2, Len(val)))
         IN  IF idx.ok /\ 0 <= idx.value /\ idx.value < Len(lookup)
             THEN lookup[idx.value + 1]
             ELSE val
    ELSE val

\* ToonCodec._decompress_recursive
RECURSIVE ToonCodec_decompress_recursive(_, _)
RECURSIVE decompress_members(_, _, _, _)
decompress_members(members, i, lookup, decoded) ==
    IF i > Len(members) THEN JObj(decoded)
    ELSE decompress_members(members, i + 1, lookup,
             DictSet(decoded,
                     ToonCodec_resolve_ref(KeyOf(members[i]), lookup),
                     ToonCodec_decompress_recursive(ValueOf(members[i]), lookup)))
ToonCodec_decompress_recursive(node, lookup) ==
    IF node.kind = "obj" THEN decompress_members(node.items, 1, lookup, << >>)
    ELSE IF node.kind = "arr"
         THEN JArr([i \in 1..Len(node.items) |->
                       ToonCodec_decompress_recursive(node.items[i], lookup)])
    ELSE IF node.kind = "str" THEN JStr(ToonCodec_resolve_ref(node.s, lookup))
    ELSE node

\* ToonCodec.decode
ToonCodec_decode(payload) == ToonCodec_decompress_recursive(payload.data, payload.lookup)

(***************************************************************************)
(* The specification of the codec as a function: a JSON value is drawn in  *)
(* the initial state, encoded, and its payload decoded.                    *)
(***************************************************************************)
MaxItems == 2

strA      == << "a" >>
strX      == << "x" >>
strTilde0 == << "~", "0" >>
strTilde1 == << "~", "1" >>
strTilde5 == << "~", "5" >>
CodecStrings == {strA, strX, strTilde0, strTilde1, strTilde5}
Scalars == {JStr(s) : s \in CodecStrings} \cup {JNum(7), JBool(TRUE), JNull}

\* sequences of at most n elements of S
SeqsUpTo(S, n) == UNION {[1..k -> S] : k \in 0..n}
\* sequences of members whose keys are all different
DistinctKeys(members) ==
    \A i, j \in 1..Len(members) : KeyOf(members[i]) = KeyOf(members[j]) => i = j
MembersOver(V) == {Member(k, v) : k \in CodecStrings, v \in V}
ObjectsOver(V, n) ==
    {JObj(m) : m \in {ms \in SeqsUpTo(MembersOver(V), n) : DistinctKeys(ms)}}
ArraysOver(V, n) == {JArr(items) : items \in SeqsUpTo(V, n)}

FlatValues == ArraysOver(Scalars, MaxItems) \cup ObjectsOver(Scalars, MaxItems)
SmallValues == ArraysOver(Scalars, 1) \cup ObjectsOver(Scalars, 1)
\* a value inside a value
NestedValues ==
    {JArr(<< v, w >>) : v \in SmallValues, w \in SmallValues}
    \cup {JObj(<< Member(k, v) >>) : k \in CodecStrings, v \in SmallValues}
\* encode({"a":"x","b":"x","c":{"a":"x"}}) with "~0" for "b" and "~1" for "c"
InterningExample ==
    JObj(<< Member(strA, JStr(strX)), Member(strTilde0, JStr(strX)),
            Member(strTilde1, JObj(<< Member(strA, JStr(strX)) >>)) >>)
JsonValues == Scalars \cup FlatValues \cup NestedValues \cup {InterningExample}

NoPayload == [lookup |-> << >>, data |-> JNull]
CodecOutput(stage, payload, decoded) ==
    [stage |-> stage, payload |-> payload, decoded |-> decoded]

InitCodec ==
    /\ workflow = FALSE
    /\ served = 0
    /\ request = NoRequest
    /\ pc = Idle
    /\ state = EmptyState
    /\ events = << >>
    /\ sql_cache = EmptyStore
    /\ resp_cache = EmptyStore
    /\ trail = << >>
    /\ sql_writer = EmptyStore
    /\ resp_writer = EmptyStore
    /\ sql_hit = NoIdentity
    /\ resp_hit = NoIdentity
    /\ db_log = << >>
    /\ fn_in \in JsonValues
    /\ fn_out = CodecOutput("input", NoPayload, JNull)

\* toon.encode(x)["payload"]
Encode ==
    /\ fn_out.stage = "input"
    /\ fn_out' = CodecOutput("encoded", ToonCodec_encode(fn_in), JNull)
    /\ UNCHANGED << pipeline_vars, fn_in >>

\* toon.decode(payload)
Decode ==
    /\ fn_out.stage = "encoded"
    /\ fn_out' = CodecOutput("decoded", fn_out.payload, ToonCodec_decode(fn_out.payload))
    /\ UNCHANGED << pipeline_vars, fn_in >>

NextCodec ==
    \/ Encode
    \/ Decode

SpecCodec == InitCodec /\ [][NextCodec]_vars

(***************************************************************************)
(* The codec's properties, stated on the value itself.                     *)
(***************************************************************************)
\* C15: decode(encode(x).payload) = x for every JSON value x, also when x
\* holds strings or keys that look like back-reference tokens
C15_CodecRoundTrip == fn_out.stage = "decoded" => fn_out.decoded = fn_in
\* a value made of strings that look like tokens has been through both
C15_Witness ==
    /\ fn_out.stage = "decoded"
    /\ fn_in = JArr(<< JStr(strTilde1), JStr(strTilde0) >>)
    /\ fn_out.payload.lookup = << strTilde1, strTilde0 >>
    /\ fn_out.decoded = fn_in

\* the strings of a value in traversal order: of each member the key and
\* then the strings of its value
RECURSIVE StringsOf(_)
RECURSIVE StringsFrom(_, _)
StringsFrom(items, i) ==
    IF i > Len(items) THEN << >> ELSE StringsOf(items[i]) \o StringsFrom(items, i + 1)
StringsOf(node) ==
    IF node.kind = "str" THEN << node.s >>
    ELSE IF node.kind = "member" THEN << node.s >> \o StringsFrom(node.items, 1)
    ELSE StringsFrom(node.items, 1)

\* a sequence without the repetitions of its elements
FirstSeen(seq) ==
    SelectSeq([i \in 1..Len(seq) |-> [at |-> i, s |-> seq[i]]],
              LAMBDA e : \A j \in 1..(e.at - 1) : seq[j] # e.s)

\* the token of a string: the marker and its index in the lookup, from 0
TokenOf(s, lookup) ==
    Tilde \o StrNat((CHOOSE i \in 1..Len(lookup) : lookup[i] = s) - 1)
\* the value with every string and key replaced by its token
RECURSIVE TokensFor(_, _)
TokensFor(node, lookup) ==
    IF node.kind = "str" THEN JStr(TokenOf(node.s, lookup))
    ELSE IF node.kind = "member"
         THEN Member(TokenOf(node.s, lookup), TokensFor(node.items[1], lookup))
    ELSE JValue(node.kind, node.s, node.n,
                [i \in 1..Len(node.items) |-> TokensFor(node.items[i], lookup)])

\* C16: the lookup of encode holds each distinct string of the input (keys
\* and string values) exactly once, in first-seen traversal order from index
\* 0, and every string of the encoded data is the token of its one index
C16_CodecInterning ==
    fn_out.stage # "input" =>
        LET lookup == fn_out.payload.lookup
            seen   == FirstSeen(StringsOf(fn_in))
        IN  /\ Len(lookup) = Len(seen)
            /\ \A i \in 1..Len(lookup) : lookup[i] = seen[i].s
            /\ \A i, j \in 1..Len(lookup) : lookup[i] = lookup[j] => i = j
            /\ fn_out.payload.data = TokensFor(fn_in, lookup)
\* the same string at three places and two depths is one entry of the lookup
C16_Witness ==
    /\ fn_out.stage = "encoded"
    /\ fn_in = InterningExample
    /\ fn_out.payload.lookup = << strA, strX, strTilde0, strTilde1 >>

(***************************************************************************)
(* The specification of the synthesizer node as a function of its entry    *)
(* state, the request's metadata, the SQL cache and what its collaborators *)
(* do.  An entry is drawn, the node is run on it against the cache the     *)
(* earlier runs have left, and the next entry is drawn.                    *)
(***************************************************************************)
MaxEntries == 2

stmtSkipped ==
    <<"S","E","L","E","C","T"," ","*"," ","F","R","O","M"," ","t","a","s","k","s"," ",
      "W","H","E","R","E"," ","s","t","a","t","u","s"," ","="," ","'","S","K","I","P","P","E","D","'">>

\* replies of the SQL-generation model, one of them a statement that holds
\* the letters SKIP
SynthReplies ==
    { JsonReply("sql", stmtSelectAll), JsonReply("sql", stmtSkipped),
      JsonReply("text", txtWhichUser) }

\* the state in which generate_sql is first entered for a request
FirstEntry(req) == Merge(Merge(EmptyState, workflow_inputs(req)), [route |-> "SQL"])
\* the states in which generate_sql is entered: first, from the retry gate
\* after a generated statement was rejected, and from the retry gate after a
\* cached statement was rejected
SynthEntries(req) ==
    { FirstEntry(req),
      Merge(FirstEntry(req),
            [sql_query |-> stmtDrop, error |-> ErrPolicy, retry_count |-> 2]),
      Merge(FirstEntry(req),
            [sql_query |-> stmtDrop, error |-> ErrPolicy, retry_count |-> 1,
             from_cache |-> TRUE]) }
SynthInput(st, md, env) == [st |-> st, md |-> md, env |-> env]
SynthInputs ==
    UNION { {SynthInput(st, req.metadata, env) :
                st \in SynthEntries(req), env \in SynthEnvs(SynthReplies)} :
            req \in Requests }

\* the run of the node on fn_in: the stage, the outcome, the state and the
\* next node after it, and the cache and its writers before it
SynthOutput(stage, o, st, next, cache_before, writer_before) ==
    [stage |-> stage, raised |-> o.raised, hit |-> o.hit, wrote |-> o.wrote,
     calls |-> o.calls, state |-> st, next |-> next,
     cache_before |-> cache_before, writer_before |-> writer_before]
NoOutcome ==
    SynthOutput("input", SynthOutcome(FALSE, update_no_db, EmptyStore, FALSE, FALSE, << >>),
                EmptyState, "unset", EmptyStore, EmptyStore)

InitSynth ==
    /\ workflow = FALSE
    /\ served = 0
    /\ request = NoRequest
    /\ pc = Idle
    /\ state = EmptyState
    /\ events = << >>
    /\ sql_cache = EmptyStore
    /\ resp_cache = EmptyStore
    /\ trail = << >>
    /\ sql_writer = EmptyStore
    /\ resp_writer = EmptyStore
    /\ sql_hit = NoIdentity
    /\ resp_hit = NoIdentity
    /\ db_log = << >>
    /\ fn_in \in SynthInputs
    /\ fn_out = NoOutcome

\* GenerateSQLNode.run(fn_in.st) against the cache as it is
Synthesize ==
    /\ fn_out.stage = "input"
    /\ \E o \in {GenerateSQLNode_outcome(fn_in.st, fn_in.md, sql_cache, fn_in.env)} :
       \E slot \in {cache_slot(fn_in.st, fn_in.md)} :
       \E after \in {IF o.raised THEN fn_in.st ELSE Merge(fn_in.st, o.update)} :
          /\ fn_out' = SynthOutput("done", o, after,
                                   IF o.raised THEN "raised" ELSE after_generation(after),
                                   sql_cache, sql_writer)
          /\ sql_cache' = o.cache
          /\ sql_writer' = IF o.wrote THEN StoreSet(sql_writer, slot, Identity(fn_in.md))
                           ELSE sql_writer
    /\ trail' = Append(trail, "generate_sql")
    /\ UNCHANGED << workflow, served, request, pc, state, events, resp_cache,
                    resp_writer, sql_hit, resp_hit, db_log, fn_in >>

\* the node is entered again, for the same or for another request
NextEntry ==
    /\ fn_out.stage = "done"
    /\ synth_runs < MaxEntries
    /\ fn_in' \in SynthInputs
    /\ fn_out' = NoOutcome
    /\ UNCHANGED pipeline_vars

NextSynth ==
    \/ Synthesize
    \/ NextEntry

SpecSynth == InitSynth /\ [][NextSynth]_vars

\* the slot of the cache that the run on fn_in reads and writes
SynthSlot == cache_slot(fn_in.st, fn_in.md)
\* the run on fn_in with a store that takes the write
HealthyOutcome ==
    GenerateSQLNode_outcome(fn_in.st, fn_in.md, fn_out.cache_before,
                            [fn_in.env EXCEPT !.set_up = TRUE])

\* C17: a store that fails on get is a miss and the node goes on to the
\* model; a store that fails on set leaves the cache as it was, and the run
\* ends as the run with a healthy store does: raised or not, the same error
\* field, the same statement and the same next node
C17_CacheFailureIsMiss ==
    (fn_out.stage = "done" /\ fn_in.md.has_db /\ fn_in.env.schema_ok) =>
        /\ (cache_lookup_due(fn_in.st) /\ ~fn_in.env.get_up) =>
              /\ ~fn_out.hit
              /\ Count(fn_out.calls, "llm") = 1
              /\ fn_out.raised => ~fn_in.env.llm_ok
        /\ ~fn_in.env.set_up =>
              /\ sql_cache = fn_out.cache_before
              /\ ~fn_out.wrote
              /\ fn_out.raised = HealthyOutcome.raised
              /\ ~fn_out.raised =>
                    /\ fn_out.state = Merge(fn_in.st, HealthyOutcome.update)
                    /\ fn_out.next = after_generation(Merge(fn_in.st, HealthyOutcome.update))
\* the store held the statement under the key and failed on get and on set:
\* the model was asked, and its statement went to validation uncached
C17_Witness ==
    /\ fn_out.stage = "done"
    /\ fn_in.st.retry_count = 0
    /\ ~fn_in.env.get_up /\ ~fn_in.env.set_up
    /\ SynthSlot \in DOMAIN fn_out.cache_before
    /\ fn_out.calls = << "schema", "cache_get", "person_resolver", "llm", "cache_set" >>
    /\ ~fn_out.raised
    /\ fn_out.state.error = None
    /\ fn_out.next = "validate_sql"
    /\ sql_cache = fn_out.cache_before

\* C18: a first entry that finds a statement under its key, written by a
\* request of the same tenant, user and role, returns that statement and
\* calls neither the name resolver nor the model
C18_CacheHitSkipsGeneration ==
    ( /\ fn_out.stage = "done"
      /\ fn_in.md.has_db /\ fn_in.env.schema_ok /\ fn_in.env.get_up
      /\ fn_in.st.retry_count = 0
      /\ SynthSlot \in DOMAIN fn_out.cache_before
      /\ Truthy(StoreGet(fn_out.cache_before, SynthSlot))
      /\ StoreGet(fn_out.writer_before, SynthSlot) = Identity(fn_in.md) ) =>
        /\ ~fn_out.raised
        /\ fn_out.state.sql_query = fn_out.cache_before[SynthSlot]
        /\ Count(fn_out.calls, "person_resolver") = 0
        /\ Count(fn_out.calls, "llm") = 0

(***************************************************************************)
(* The SQL cache and the clarification outcome in the pipeline.            *)
(***************************************************************************)
\* C19: a run of the synthesizer changes the SQL cache only when no error is
\* set in the state it is entered with, and only as the first run of its
\* request: a run entered from the retry gate leaves the cache as it was
C19_NoCacheWriteOnRetry ==
    [][(pc = "generate_sql" /\ (sql_cache' # sql_cache \/ sql_writer' # sql_writer)) =>
           (~Truthy(state.error) /\ synth_runs = 0)]_vars
\* the first run stored its statement, the statement was rejected, and the
\* second run returned another statement: the cache holds the first one
C19_Witness ==
    /\ synth_runs = 2
    /\ Last(trail) = "generate_sql"
    /\ Truthy(state.error)
    /\ state.sql_query = apply_ironclad_heuristics(stmtSelectAll, << >>, request.metadata.company_id)
    /\ StoreGet(sql_cache, SemanticCache_key(node_cache_key(state, request.metadata))) = stmtDrop

\* the texts the model's replies hold when they are no statement
ClarificationTexts ==
    {parse_reply(reply).text_response :
        reply \in {r \in LLMReplies : parse_reply(r).is_text_response}}
\* the synthesizer's last run of the request ended in a clarification
TextOutcome == trail # << >> /\ state.sql_query = kwSKIP
\* C20: after a clarification outcome the statement is SKIP, retry_count is
\* 0, the last message is the clarification, the synthesizer was the last
\* node to run and no node is due
C20_TextOutcomeEndsRequest ==
    TextOutcome =>
        /\ state.retry_count = 0
        /\ Last(state.messages) \in {AIMessage(text) : text \in ClarificationTexts}
        /\ Last(trail) = "generate_sql"
        /\ pc \notin GraphNodes
\* a clarification on the second attempt, and the stream that carries it
C20_Witness ==
    /\ TextOutcome
    /\ synth_runs = 2
    /\ Count(trail, "generate_response") = 0
    /\ \E i \in 1..Len(events) :
          events[i].type = "token" /\ events[i].message = txtWhichUser

\* C21: after a clarification outcome no error is left in the state, also
\* when the synthesizer was entered from the retry gate
C21_TextOutcomeClearsError == TextOutcome => ~Truthy(state.error)

\* C22: the first request served, when its synthesizer ends in a
\* clarification, has written neither the SQL cache nor the response cache
C22_NoCacheWriteOnTextOutcome ==
    (TextOutcome /\ served = 1) =>
        /\ sql_cache = EmptyStore
        /\ resp_cache = EmptyStore

(***************************************************************************)
(* The specification of the router as a function of the query text and of  *)
(* what its model does.                                                    *)
(***************************************************************************)
\* every variable of the pipeline as it is before the first request
PipelineAtRest ==
    /\ workflow = FALSE
    /\ served = 0
    /\ request = NoRequest
    /\ pc = Idle
    /\ state = EmptyState
    /\ events = << >>
    /\ sql_cache = EmptyStore
    /\ resp_cache = EmptyStore
    /\ trail = << >>
    /\ sql_writer = EmptyStore
    /\ resp_writer = EmptyStore
    /\ sql_hit = NoIdentity
    /\ resp_hit = NoIdentity
    /\ db_log = << >>

txtThanks   == <<"T","h","a","n","k","s">>
txtListAll  == <<"L","I","S","T"," ","A","L","L">>
txtPolicy   == <<"p","o","l","i","c","y","?">>
txtHowToAdd == <<"h","o","w"," ","d","o"," ","I"," ","a","d","d"," ","o","n","e","?">>
RouterTexts == {txtHello, txtThanks, txtPolicy, txtShowUsers, txtListAll, txtHowToAdd}

\* replies of the routing model: the labels bare, in lower case, in markdown
\* and inside a sentence, two labels at once, no label, and nothing
RouterRepliesWide ==
    RouterReplies \cup
    { <<"s","q","l">>, <<"*","*","S","Q","L","*","*">>,
      <<"V","E","C","T","O","R"," ","o","r"," ","C","H","A","T">>,
      <<"c","h","a","t",".">>, <<"I"," ","t","h","i","n","k"," ","S","Q","L">>,
      <<"U","N","K","N","O","W","N">>, << >> }

RouterInput(text, llm_ok, reply) == [text |-> text, llm_ok |-> llm_ok, reply |-> reply]
RouterOutput(stage, route, next) == [stage |-> stage, route |-> route, next |-> next]

InitRouter ==
    /\ PipelineAtRest
    /\ fn_in \in {RouterInput(text, llm_ok, reply) :
                     text \in RouterTexts, llm_ok \in BOOLEAN, reply \in RouterRepliesWide}
    /\ fn_out = RouterOutput("input", "unset", "unset")

\* route_query on the state of a request with the text, then route_decision
Route ==
    /\ fn_out.stage = "input"
    /\ \E st \in {Merge(EmptyState, workflow_inputs(ChatRequest("s1", fn_in.text,
                                                                 NoRequest.metadata)))} :
       \E upd \in {RouterNode_update(st, fn_in.llm_ok, fn_in.reply)} :
          fn_out' = RouterOutput("done", upd.route, route_decision(Merge(st, upd)))
    /\ UNCHANGED << pipeline_vars, fn_in >>

NextRouter == Route

SpecRouter == InitRouter /\ [][NextRouter]_vars

\* the reply holds the label, in either case and with or without markdown
HoldsLabel(reply, label) ==
    \E i \in 1..Len(reply) : \E j \in i..Len(reply) :
        Upper(RemoveChar(SubSeq(reply, i, j), "*")) = label
RouteLabels == { <<"S","Q","L">>, <<"V","E","C","T","O","R">>, <<"C","H","A","T">> }
\* a keyword of the heuristic occurs in the query, in either case
KeywordInQuery == \E kw \in intent_keywords : Contains(kw, Lower(fn_in.text))

\* C23: the SQL branch is entered only after a keyword match or a reply of
\* the model that holds the label SQL; a failed model and a reply with none
\* of the three labels give CHAT; the route is always one of the three, so
\* the default branch of route_decision is not taken
C23_RouterFailsOpenToChat ==
    fn_out.stage = "done" =>
        /\ fn_out.next = "pii_process" =>
              \/ KeywordInQuery
              \/ fn_in.llm_ok /\ HoldsLabel(fn_in.reply, <<"S","Q","L">>)
        /\ ( /\ ~KeywordInQuery
             /\ \/ ~fn_in.llm_ok
                \/ \A label \in RouteLabels : ~HoldsLabel(fn_in.reply, label) ) =>
              /\ fn_out.route = "CHAT"
              /\ fn_out.next = "general_chat"
        /\ fn_out.route \in {"SQL", "VECTOR", "CHAT"}
        /\ fn_out.next = "pii_process" <=> fn_out.route = "SQL"
\* a greeting and a model that answers with no label: the chat branch
C23_Witness ==
    /\ fn_out.stage = "done"
    /\ fn_in = RouterInput(txtHello, TRUE, <<"U","N","K","N","O","W","N">>)
    /\ fn_out.route = "CHAT"
    /\ fn_out.next = "general_chat"

(***************************************************************************)
(* The name resolver (app/services/person_resolver_service.py).  The user  *)
(* table is a sequence of rows; the mapping returned is a function from    *)
(* names to sequences of ids.                                              *)
(***************************************************************************)
MaxNames == 2
person_limit == 5

nmSoban       == <<"S","o","b","a","n">>
nmSobanLower  == <<"s","o","b","a","n">>
nmSobanQuoted == <<"'","S","o","b","a","n","'">>
nmJohn        == <<"J","o","h","n">>
nmOba         == <<"O","B","A">>
txtTasksForSoban  == <<"t","a","s","k","s"," ","f","o","r"," ","S","o","b","a","n">>
txtTasksForQuoted == <<"t","a","s","k","s"," ","f","o","r"," ","'","s","o","b","a","n","'">>
txtMyTasks        == <<"l","i","s","t"," ","m","y"," ","t","a","s","k","s">>

UserRow(id, first_name, company_id) ==
    [id |-> id, first_name |-> first_name, company_id |-> company_id]
UserTable == << UserRow(1, nmSoban, 5), UserRow(2, nmJohn, 5), UserRow(3, nmSoban, 7) >>

\* str.strip(chars): leading and trailing characters of the set removed
StripChars(s, chars) ==
    LET idx == {i \in 1..Len(s) : s[i] \notin chars}
    IN  IF idx = {} THEN << >>
        ELSE LET lo == CHOOSE i \in idx : \A j \in idx : i <= j
                 hi == CHOOSE i \in idx : \A j \in idx : j <= i
             IN  SubSeq(s, lo, hi)

\* SELECT id FROM user WHERE first_name LIKE %safe_name% AND company_id = cid
\* LIMIT 5, with LIKE comparing without regard to case
select_user_ids(safe_name, company_id) ==
    LET rows == SelectSeq(UserTable,
                    LAMBDA row : /\ Contains(Lower(safe_name), Lower(row.first_name))
                                 /\ row.company_id = company_id)
    IN  [i \in 1..Min(Len(rows), person_limit) |-> rows[i].id]

\* a guardrail that lets every name through
name_in_query_always(name, query) == TRUE
\* the guardrail: name.lower() in query.lower()
name_in_query(name, query) == Contains(Lower(name), Lower(query))

\* resolved[name] = ids on a mapping kept as a function
MapPut(resolved, name, ids) ==
    [k \in DOMAIN resolved \cup {name} |-> IF k = name THEN ids ELSE resolved[k]]
NoMapping == [k \in {} |-> << >>]

\* the loop over the names the model returned
RECURSIVE resolve_names(_, _, _, _, _)
resolve_names(names, i, query, company_id, resolved) ==
    IF i > Len(names) THEN resolved
    ELSE IF ~name_in_query(names[i], query)
         THEN resolve_names(names, i + 1, query, company_id, resolved)
         ELSE LET safe_name == StripChars(names[i], {"'", ",", "\""})
                  ids == select_user_ids(safe_name, company_id)
              IN  resolve_names(names, i + 1, query, company_id,
                                IF ids # << >> THEN MapPut(resolved, names[i], ids)
                                ELSE resolved)

\* PersonResolverService.resolve_person_to_ids: the model's answer is a list
\* of names ("list"), a JSON value that is no list ("not_list"), or the model,
\* the parse or the database raises ("raises")
resolve_person_to_ids(query, company_id, answer, names) ==
    IF answer = "list" THEN resolve_names(names, 1, query, company_id, NoMapping)
    ELSE NoMapping

ResolverQueries == {txtTasksForSoban, txtTasksForQuoted, txtMyTasks}
CandidateNames == {nmSoban, nmSobanLower, nmSobanQuoted, nmJohn, nmOba, << >>}
ResolverInput(query, company_id, answer, names) ==
    [query |-> query, company_id |-> company_id, answer |-> answer, names |-> names]
ResolverOutput(stage, resolved) == [stage |-> stage, resolved |-> resolved]

InitResolver ==
    /\ PipelineAtRest
    /\ fn_in \in {ResolverInput(query, company_id, answer, names) :
                     query \in ResolverQueries, company_id \in {5, 7},
                     answer \in {"list", "not_list", "raises"},
                     names \in SeqsUpTo(CandidateNames, MaxNames)}
    /\ fn_out = ResolverOutput("input", NoMapping)

Resolve ==
    /\ fn_out.stage = "input"
    /\ fn_out' = ResolverOutput("done",
                     resolve_person_to_ids(fn_in.query, fn_in.company_id,
                                           fn_in.answer, fn_in.names))
    /\ UNCHANGED << pipeline_vars, fn_in >>

NextResolver == Resolve

SpecResolver == InitResolver /\ [][NextResolver]_vars

\* the text occurs in the query when case is set aside
OccursIgnoringCase(text, query) ==
    \E i \in 0..(Len(query) - Len(text)) :
        \A j \in 1..Len(text) : LowerCh(query[i + j]) = LowerCh(text[j])

\* C24: every key of the mapping returned by resolve_person_to_ids occurs in
\* the query text when case is set aside
C24_NameGuardrail ==
    fn_out.stage = "done" =>
        \A name \in DOMAIN fn_out.resolved : OccursIgnoringCase(name, fn_in.query)
\* the model names a person of the query and one who is not in it, both in
\* the user table: only the first is in the mapping
C24_Witness ==
    /\ fn_out.stage = "done"
    /\ fn_in = ResolverInput(txtTasksForSoban, 5, "list", << nmJohn, nmSobanLower >>)
    /\ fn_out.resolved = MapPut(NoMapping, nmSobanLower, << 1 >>)

(***************************************************************************)
(* The conversation, the retry gate and the response node in the pipeline. *)
(***************************************************************************)
IsPrefix(a, b) == Len(a) <= Len(b) /\ SubSeq(b, 1, Len(a)) = a

\* C25: every step of a node leaves the messages it found as a prefix of the
\* messages it leaves
C25_MessagesAppendOnly ==
    [][(pc \in GraphNodes) => IsPrefix(state.messages, state'.messages)]_vars

(***************************************************************************)
(* The pagination window of the executor as a function of the number of    *)
(* rows the statement returned and of the page and limit of the metadata.  *)
(***************************************************************************)
MaxResultRows == 6
MaxPageArg == 3

PagingInput(n_rows, page, limit) == [n_rows |-> n_rows, page |-> page, limit |-> limit]
PagingOutput(stage, rows_preview) == [stage |-> stage, rows_preview |-> rows_preview]

InitPaging ==
    /\ PipelineAtRest
    /\ fn_in \in {PagingInput(n_rows, page, limit) :
                     n_rows \in 0..MaxResultRows,
                     page \in (0 - MaxPageArg)..MaxPageArg,
                     limit \in (0 - MaxPageArg)..MaxPageArg}
    /\ fn_out = PagingOutput("input", 0)

\* lines 76-83 on the rows of a statement that ran
Paginate ==
    /\ fn_out.stage = "input"
    /\ fn_out' = PagingOutput("done", paginated_len(fn_in.n_rows, fn_in.page, fn_in.limit))
    /\ UNCHANGED << pipeline_vars, fn_in >>

NextPaging == Paginate

SpecPaging == InitPaging /\ [][NextPaging]_vars

\* C26: the preview of a successful execution holds at most limit rows, for
\* every page, limit and number of rows (no row when the limit is negative)
C26_PreviewWithinPageSize ==
    fn_out.stage = "done" => fn_out.rows_preview <= Max(fn_in.limit, 0)

\* C27: a step of validate_sql or execute_sql goes to generate_sql exactly
\* when it leaves an error in the state and retry_count below 3, and then the
\* prompt of the synthesizer holds that error; with an error and retry_count
\* at 3 or more it goes to generate_response, the error still in the state
C27_RetryGate ==
    [][(pc \in {"validate_sql", "execute_sql"}) =>
           /\ pc' = "generate_sql" <=>
                 (Truthy(state'.error) /\ state'.retry_count < max_retries)
           /\ pc' = "generate_sql" => Contains(state'.error, error_context(state'))
           /\ (Truthy(state'.error) /\ state'.retry_count >= max_retries) =>
                 pc' = "generate_response"]_vars
\* the executor failed on the statement of a cache hit and the gate sent the
\* request back with the database's error for the prompt
C27_Witness ==
    /\ pc = "generate_sql"
    /\ Last(trail) = "execute_sql"
    /\ state.error = ErrDb
    /\ state.retry_count = 1
    /\ Contains(ErrDb, error_context(state))

\* C28: the response node entered with an error returns the apology that
\* holds the error text, does not raise (it calls no model), leaves the error
\* in the state and ends the graph; the result event that follows has status
\* "error"
C28_ApologyOnError ==
    [][/\ (pc = "generate_response" /\ Truthy(state.error)) =>
              /\ state'.messages = << AIMessage(ApologyHead \o state.error) >>
              /\ state'.error = state.error
              /\ pc' = "END"
       /\ (pc = "token_sent" /\ GaveUp) =>
              /\ Last(events').type = "result"
              /\ Last(events').status = "error"]_vars
\* a request answered with the apology for a rejected statement
C28_Witness ==
    /\ pc = Idle
    /\ GaveUp
    /\ state.error = ErrPolicy
    /\ Last(state.messages).content = ApologyHead \o ErrPolicy
    /\ events[Len(events) - 1] = TokenEvent(ApologyHead \o ErrPolicy)
    /\ Last(events).status = "error"

(***************************************************************************)
(* The specification of the refiner as a function of the statement and of  *)
(* the tenant id.                                                          *)
(***************************************************************************)
\* SELECT * FROM users WHERE(id = 1)
stmtSelectParen ==
    <<"S","E","L","E","C","T"," ","*"," ","F","R","O","M"," ","u","s","e","r","s",
      " ","W","H","E","R","E","(","i","d"," ","="," ","1",")">>
\* select * from users where  id = 1
stmtSelectLower ==
    <<"s","e","l","e","c","t"," ","*"," ","f","r","o","m"," ","u","s","e","r","s",
      " ","w","h","e","r","e"," "," ","i","d"," ","="," ","1">>
\* SELECT * FROM users LIMIT 3
stmtSelectLimit ==
    <<"S","E","L","E","C","T"," ","*"," ","F","R","O","M"," ","u","s","e","r","s",
      " ","L","I","M","I","T"," ","3">>
\* SELECT * FROM (SELECT * FROM users WHERE id = 1) s
stmtSelectNested ==
    <<"S","E","L","E","C","T"," ","*"," ","F","R","O","M"," ","(","S","E","L","E",
      "C","T"," ","*"," ","F","R","O","M"," ","u","s","e","r","s"," ","W","H","E",
      "R","E"," ","i","d"," ","="," ","1",")"," ","s">>
\* SELECT where_id FROM users
stmtSelectColumn ==
    <<"S","E","L","E","C","T"," ","w","h","e","r","e","_","i","d"," ","F","R","O",
      "M"," ","u","s","e","r","s">>

RefinerStatements ==
    { stmtSelectAll, stmtSelectWhere, stmtSelectParen, stmtSelectLower, stmtSelectLimit,
      stmtSelectNested, stmtSelectColumn, stmtSkipped, stmtUpdate, stmtDrop, << >> }
\* tenant ids: absent, 0, and ids that do and do not occur in the statements
RefinerCompanies == {NoCompany, 0, 1, 3, 5, 7}

RefinerInput(sql_query, company_id) == [sql_query |-> sql_query, company_id |-> company_id]
RefinerOutput(stage, sql_query) == [stage |-> stage, sql_query |-> sql_query]

InitRefiner ==
    /\ PipelineAtRest
    /\ fn_in \in {RefinerInput(sql_query, company_id) :
                     sql_query \in RefinerStatements, company_id \in RefinerCompanies}
    /\ fn_out = RefinerOutput("input", << >>)

Refine ==
    /\ fn_out.stage = "input"
    /\ fn_out' = RefinerOutput("done",
                     apply_ironclad_heuristics(fn_in.sql_query, << >>, fn_in.company_id))
    /\ UNCHANGED << pipeline_vars, fn_in >>

NextRefiner == Refine

SpecRefiner == InitRefiner /\ [][NextRefiner]_vars

\* the text  company_id = <tenant id>
TenantCondition(company_id) ==
    <<"c","o","m","p","a","n","y","_","i","d"," ","="," ">> \o StrOptInt(company_id)
\* the statement holds the keyword WHERE, in either case
HasWhere(sql_query) ==
    \E i \in 1..(Len(sql_query) - 4) : Upper(SubSeq(sql_query, i, i + 4)) = kwWHERE
\* the statement is a SELECT and a tenant id is set
RefinerApplies ==
    /\ fn_out.stage = "done"
    /\ Len(fn_in.sql_query) >= 6
    /\ Upper(SubSeq(fn_in.sql_query, 1, 6)) = kwSELECT
    /\ fn_in.company_id > 0

\* C29: a SELECT statement refined for a tenant is returned as it is when
\* the tenant id occurs in its text; otherwise the statement returned holds
\* company_id = <tenant id>, followed by AND inside the WHERE clause of a
\* statement that has one, and as a WHERE clause at the end of one that has
\* none
C29_TenantFilterInjected ==
    RefinerApplies =>
        IF Contains(StrOptInt(fn_in.company_id), fn_in.sql_query)
        THEN fn_out.sql_query = fn_in.sql_query
        ELSE /\ Contains(TenantCondition(fn_in.company_id), fn_out.sql_query)
             /\ IF HasWhere(fn_in.sql_query)
                THEN Contains(TenantCondition(fn_in.company_id) \o <<" ","A","N","D"," ">>,
                              fn_out.sql_query)
                ELSE fn_out.sql_query =
                        fn_in.sql_query \o <<" ","W","H","E","R","E"," ">>
                        \o TenantCondition(fn_in.company_id)

(***************************************************************************)
(* Table selection (app/services/table_selector_service.py and lines 66-104 *)
(* of the synthesizer) as a function of the query, the known tables and    *)
(* what the selection model does.                                          *)
(***************************************************************************)
MaxSelected == 2
fallback_tables == 10

tblTasks  == <<"t","a","s","k","s">>
tblAssets == <<"a","s","s","e","t","s">>
tblGhost  == <<"g","h","o","s","t">>
\* tables whose names match no keyword of the heuristic
PlainTable(n) == <<"t">> \o StrNat(n)
\* eleven known tables, three known tables, and none
ManyTables ==
    << tblUsers, tblTasks, tblAssets >> \o [i \in 1..8 |-> PlainTable(i)]
FewTables == << tblUsers, tblTasks, PlainTable(1) >>
KnownTables == {ManyTables, FewTables, << >>}

\* list(dict.fromkeys(seq)): the first occurrence of each element, in order
RECURSIVE Dedupe(_)
Dedupe(seq) ==
    IF seq = << >> THEN << >>
    ELSE LET rest == Dedupe(SubSeq(seq, 1, Len(seq) - 1))
         IN  IF \E i \in 1..Len(rest) : rest[i] = seq[Len(seq)] THEN rest
             ELSE Append(rest, seq[Len(seq)])

\* whether the loop of get_relevant_tables appends table t for the query
table_hits(query, t) ==
    LET lower_msg == Lower(query)
        lt == Lower(t)
        task == /\ Contains(<<"t","a","s","k">>, lower_msg)
                /\ \/ lt = <<"t","a","s","k","_","t","r","a","n","s","a","c","t","i","o","n">>
                   \/ lt = <<"t","a","s","k","_","d","e","s","c","r","i","p","t","i","o","n">>
                   \/ Contains(<<"t","a","s","k">>, lt) /\ ~Contains(<<"l","i","s","t">>, lower_msg)
        user == /\ \/ Contains(<<"u","s","e","r">>, lower_msg)
                   \/ Contains(<<"a","s","s","i","g","n","e","d">>, lower_msg)
                   \/ Contains(<<"w","h","o">>, lower_msg)
                   \/ Contains(<<"p","e","r","s","o","n">>, lower_msg)
                   \/ Contains(<<"f","o","r"," ">>, lower_msg)
                /\ Contains(<<"u","s","e","r">>, lt)
        asset == Contains(<<"a","s","s","e","t">>, lower_msg) /\ Contains(<<"a","s","s","e","t">>, lt)
        company == /\ \/ Contains(<<"c","o","m","p","a","n","y">>, lower_msg)
                      \/ Contains(<<"c","o","m","p","a","n","i","e","s">>, lower_msg)
                      \/ Contains(<<"b","u","s","i","n","e","s","s">>, lower_msg)
                      \/ Contains(<<"c","o","m","p","a","n">>, lower_msg)
                   /\ Contains(<<"c","o","m","p","a","n">>, lt)
        facility == /\ \/ Contains(<<"f","a","c","i","l","i","t","y">>, lower_msg)
                       \/ Contains(<<"f","a","c","i","l","i","t","i","e","s">>, lower_msg)
                    /\ Contains(<<"f","a","c","i","l">>, lt)
    IN  task \/ user \/ asset \/ company \/ facility

\* TableSelectorService.get_relevant_tables: the tables a keyword selects, in
\* the order of all_tables, without repetition and without empty names
get_relevant_tables(query, all_tables) ==
    Dedupe(SelectSeq(all_tables, LAMBDA t : table_hits(query, t) /\ t # << >>))

\* the answer of the selection model: a JSON list of names ("list"), a JSON
\* value that is no list ("not_list"), or the call or the parse raises
Selection(kind, names) == [kind |-> kind, names |-> names]

\* lines 66-88: the selected tables after the heuristic, the model and the
\* clean-up
select_tables(query, all_tables, selection) ==
    LET heuristic == get_relevant_tables(query, all_tables)
        known == SelectSeq(selection.names,
                           LAMBDA item : \E i \in 1..Len(all_tables) : all_tables[i] = item)
        selected_tables ==
            IF heuristic # << >> THEN heuristic
            ELSE IF selection.kind = "list" THEN known
            ELSE IF selection.kind = "not_list" THEN heuristic
            ELSE SubSeq(all_tables, 1, Min(Len(all_tables), fallback_tables))
    IN  Dedupe(SelectSeq(selected_tables, LAMBDA s : s # << >>))

\* lines 90-104: what the prompt gets as schema: the names of all the known
\* tables when nothing is selected, else the schema of the selected tables
schema_context(selected_tables, all_tables) ==
    IF selected_tables = << >> THEN [kind |-> "all_table_names", tables |-> all_tables]
    ELSE [kind |-> "schema", tables |-> selected_tables]

SelectionQueries == {txtShowUsers, txtHello, txtMyTasks}
SelectionNames == {tblUsers, PlainTable(1), tblGhost, << >>}
SelectionInput(query, all_tables, selection) ==
    [query |-> query, all_tables |-> all_tables, selection |-> selection]
SelectionOutput(stage, selected_tables, schema) ==
    [stage |-> stage, selected_tables |-> selected_tables, schema |-> schema]

InitSelection ==
    /\ PipelineAtRest
    /\ fn_in \in {SelectionInput(query, all_tables, Selection(kind, names)) :
                     query \in SelectionQueries, all_tables \in KnownTables,
                     kind \in {"list", "not_list", "raises"},
                     names \in SeqsUpTo(SelectionNames, MaxSelected)}
    /\ fn_out = SelectionOutput("input", << >>, schema_context(<< >>, << >>))

SelectTables ==
    /\ fn_out.stage = "input"
    /\ \E selected \in {select_tables(fn_in.query, fn_in.all_tables, fn_in.selection)} :
          fn_out' = SelectionOutput("done", selected,
                                    schema_context(selected, fn_in.all_tables))
    /\ UNCHANGED << pipeline_vars, fn_in >>

NextSelection == SelectTables

SpecSelection == InitSelection /\ [][NextSelection]_vars

\* no keyword of the heuristic selects a table, and the model names no known
\* table
NothingSelected ==
    /\ fn_out.stage = "done"
    /\ \A i \in 1..Len(fn_in.all_tables) : ~table_hits(fn_in.query, fn_in.all_tables[i])
    /\ \/ fn_in.selection.kind # "list"
       \/ \A i \in 1..Len(fn_in.selection.names) :
             \A j \in 1..Len(fn_in.all_tables) :
                fn_in.selection.names[i] # fn_in.all_tables[j]

\* C30: when neither the heuristic nor the model selects a known table, the
\* selected tables are the first 10 of the known tables
C30_SelectionFallback ==
    NothingSelected =>
        fn_out.selected_tables =
            SubSeq(fn_in.all_tables, 1, Min(Len(fn_in.all_tables), fallback_tables))

(***************************************************************************)
(* The executor's reports and the caches across the attempts of a request. *)
(***************************************************************************)
\* C31: a request runs at most one statement on the database to the end:
\* the executor reports an error only for a statement that did not run
C31_ExecutedAtMostOnce == Len(db_log) <= 1

\* C32: every statement in the SQL cache is one the validator accepts
C32_CacheHoldsValidated ==
    \A k \in DOMAIN sql_cache :
        validate_sql(SQLValidatorService_init(NoList), sql_cache[k])

\* the synthesizer ran in a request with no connection target: it returned
\* the error "Database connection not configured."
SynthReportedNoDb == ~request.metadata.has_db /\ synth_runs > 0
\* C33: when the synthesizer reported that no database is configured and the
\* workflow has ended, that error is in the state, the last message is the
\* apology for it, and the status of the result is "error"
C33_SynthErrorSurvives ==
    (SynthReportedNoDb /\ pc = "END") =>
        /\ state.error = ErrNoDb
        /\ Last(state.messages) = AIMessage(ApologyHead \o ErrNoDb)
        /\ status_code_of(state) = "error"

(***************************************************************************)
(* What the result event says about the statement.                         *)
(***************************************************************************)
\* the workflow has returned and the result event is about to be built
ResultDue == pc = "token_sent"
\* C34: a result event of a workflow run with sql.cached = true carries the
\* statement the request read from the SQL cache, and the synthesizer ran
\* once only in the request
C34_CachedFlagIsTruthful ==
    (ResultDue /\ final_response_of(request, state).sql.cached) =>
        /\ synth_runs = 1
        /\ final_response_of(request, state).sql.query =
               StoreGet(sql_cache, cache_slot(state, request.metadata))

\* C35: a result event of a workflow run with sql.ran = true carries a
\* statement the executor ran on the database in the request
C35_RanFlagIsTruthful ==
    (ResultDue /\ final_response_of(request, state).sql.ran) =>
        \E i \in 1..Len(db_log) :
            db_log[i] = auto_fix(final_response_of(request, state).sql.query,
                                 request.metadata)

(***************************************************************************)
(* The response cache of generate_chat_stream.                             *)
(***************************************************************************)
\* a request starts and the response cache holds its key
ResponseHit ==
    /\ pc = Idle
    /\ served' = served + 1
    /\ workflow
    /\ cache_get(resp_cache, chat_cache_key(request')) # NoResponse
\* the hit does not invoke the workflow
WorkflowNotInvoked == pc' = Idle /\ trail' = << >> /\ state' = EmptyState

\* C36 as stated: on a hit the stream is the stored result event, unchanged
C36_HitYieldsStoredEvent ==
    [][ResponseHit =>
           (events' = << cache_get(resp_cache, chat_cache_key(request')) >>)]_vars

\* C36: the response cache only holds result events with status "ok"; a
\* request whose final state has an error writes nothing to it; on a hit the
\* workflow is not invoked and the stream is exactly one event, the stored
\* result event with its SQL block, when it has one, marked cached
C36_ResponseCacheHoldsOk ==
    /\ [](\A k \in DOMAIN resp_cache :
             resp_cache[k].type = "result" /\ resp_cache[k].status = "ok")
    /\ [][(pc = "token_sent" /\ Truthy(state.error)) =>
             (resp_cache' = resp_cache)]_vars
    /\ [][ResponseHit =>
             ( /\ WorkflowNotInvoked
               /\ events' = << mark_cached(cache_get(resp_cache,
                                                      chat_cache_key(request'))) >>
               /\ resp_cache' = resp_cache )]_vars
\* the second request of a session repeats the first one's message: its
\* stream is the stored event, marked cached, and no node has run
C36_Witness ==
    /\ served = 2
    /\ pc = Idle
    /\ trail = << >>
    /\ resp_hit # NoIdentity
    /\ chat_cache_key(request) \in DOMAIN resp_cache
    /\ resp_cache[chat_cache_key(request)].sql.present
    /\ ~resp_cache[chat_cache_key(request)].sql.cached
    /\ events = << mark_cached(resp_cache[chat_cache_key(request)]) >>

(***************************************************************************)
(* The codec as one shared object (the singleton of app/services/toon.py). *)
(* Lists are objects of a heap: a payload holds a reference to the list    *)
(* that was the codec's lookup_table when encode returned.  encode has no  *)
(* suspension point, so the calls of the requests come one after another.  *)
(***************************************************************************)
MaxEncodes == 3

\* self.lookup_table.clear(): the codec keeps its list object
ToonCodec_cleared_list(heap, self_ref) ==
    IF self_ref = 0 THEN Len(heap) + 1 ELSE self_ref
\* self.lookup_table = []: a list object that no payload refers to
ToonCodec_new_list(heap, self_ref) == Len(heap) + 1

\* the heap with the list object ref holding items
HeapPut(heap, ref, items) ==
    IF ref > Len(heap) THEN Append(heap, items) ELSE [heap EXCEPT ![ref] = items]

\* the codec and the heap after encode(data), and the payload it returns
ToonCodec_encode_shared(data, heap, self_ref) ==
    LET ref == ToonCodec_new_list(heap, self_ref)
        r == ToonCodec_compress_recursive(data, ToonCodec_reset)
    IN  [heap |-> HeapPut(heap, ref, r.self.lookup_table),
         self_ref |-> ref,
         payload |-> [lookup |-> ref, data |-> r.node]]

\* a payload as its holder sees it
Deref(heap, payload) == [lookup |-> heap[payload.lookup], data |-> payload.data]

SharedValues ==
    { JArr(<< JStr(strA), JStr(strX) >>), JArr(<< JStr(strX) >>),
      JObj(<< Member(strA, JStr(strTilde0)) >>), JArr(<< >>), JStr(strTilde1), JNum(7) }
NoDecode == [of |-> 0, value |-> JNull]
SharedCodec(heap, self_ref, payloads, returned, decoded) ==
    [heap |-> heap, self_ref |-> self_ref, payloads |-> payloads,
     returned |-> returned, decoded |-> decoded]

InitShared ==
    /\ PipelineAtRest
    /\ fn_in \in SeqsUpTo(SharedValues, MaxEncodes) \ {<< >>}
    /\ fn_out = SharedCodec(<< >>, 0, << >>, << >>, NoDecode)

\* the next encode call of some request
EncodeCall ==
    /\ Len(fn_out.payloads) < Len(fn_in)
    /\ \E e \in {ToonCodec_encode_shared(fn_in[Len(fn_out.payloads) + 1],
                                         fn_out.heap, fn_out.self_ref)} :
          fn_out' = SharedCodec(e.heap, e.self_ref,
                                Append(fn_out.payloads, e.payload),
                                Append(fn_out.returned, Deref(e.heap, e.payload)),
                                fn_out.decoded)
    /\ UNCHANGED << pipeline_vars, fn_in >>

\* a holder decodes the payload it got from an earlier call
DecodeCall ==
    /\ \E i \in 1..Len(fn_out.payloads) :
          fn_out' = [fn_out EXCEPT !.decoded =
                        [of |-> i,
                         value |-> ToonCodec_decode(Deref(fn_out.heap,
                                                          fn_out.payloads[i]))]]
    /\ UNCHANGED << pipeline_vars, fn_in >>

NextShared ==
    \/ EncodeCall
    \/ DecodeCall

SpecShared == InitShared /\ [][NextShared]_vars

\* C37: every payload an encode call returned still has the lookup list and
\* the data it was returned with, and decoding it gives the value it was
\* made from, whatever encode calls came after it
C37_PayloadStable ==
    /\ \A i \in 1..Len(fn_out.payloads) :
          Deref(fn_out.heap, fn_out.payloads[i]) = fn_out.returned[i]
    /\ fn_out.decoded.of > 0 => fn_out.decoded.value = fn_in[fn_out.decoded.of]
\* the first payload is decoded after two more encode calls with other values
C37_Witness ==
    /\ Len(fn_out.payloads) = 3
    /\ fn_in[1] = JArr(<< JStr(strA), JStr(strX) >>)
    /\ fn_in[2] = JArr(<< JStr(strX) >>)
    /\ fn_in[3] = JObj(<< Member(strA, JStr(strTilde0)) >>)
    /\ fn_out.decoded = [of |-> 1, value |-> fn_in[1]]
    /\ fn_out.returned[1].lookup = << strA, strX >>

(***************************************************************************)
(* The refiner applied to its own result.                                  *)
(***************************************************************************)
TwiceOutput(stage, once, twice) == [stage |-> stage, once |-> once, twice |-> twice]

InitTwice ==
    /\ PipelineAtRest
    /\ fn_in \in {RefinerInput(sql_query, company_id) :
                     sql_query \in RefinerStatements, company_id \in RefinerCompanies}
    /\ fn_out = TwiceOutput("input", << >>, << >>)

RefineOnce ==
    /\ fn_out.stage = "input"
    /\ fn_out' = TwiceOutput("once",
                     apply_ironclad_heuristics(fn_in.sql_query, << >>, fn_in.company_id),
                     << >>)
    /\ UNCHANGED << pipeline_vars, fn_in >>

RefineAgain ==
    /\ fn_out.stage = "once"
    /\ fn_out' = TwiceOutput("twice", fn_out.once,
                     apply_ironclad_heuristics(fn_out.once, << >>, fn_in.company_id))
    /\ UNCHANGED << pipeline_vars, fn_in >>

NextTwice ==
    \/ RefineOnce
    \/ RefineAgain

SpecTwice == InitTwice /\ [][NextTwice]_vars

\* C38: the refiner applied to its own result, for the same tenant, returns
\* that result: the tenant filter is not injected a second time
C38_RefinerIdempotent == fn_out.stage = "twice" => fn_out.twice = fn_out.once
\* a statement with a WHERE clause and without the tenant id: the first
\* application injects the filter, the second leaves the statement as it is
C38_Witness ==
    /\ fn_out.stage = "twice"
    /\ fn_in = RefinerInput(stmtSelectWhere, 7)
    /\ fn_out.once # fn_in.sql_query
    /\ Contains(TenantCondition(7) \o <<" ","A","N","D"," ">>, fn_out.once)
    /\ fn_out.twice = fn_out.once

(***************************************************************************)
(* The entry of the graph (graph.py lines 46-59 and contextualize.py): the *)
(* workflow is invoked on inputs built by generate_chat_stream, or on      *)
(* inputs with any list of messages, and runs up to the router.            *)
(***************************************************************************)
MaxHistory == 3

txtRewritten == << "the question as the rewriting model returns it" >>
HistoryMessages == {HumanMessage(txtHello), HumanMessage(txtShowUsers), AIMessage(txtAnswer)}
EntryInput(via, inputs) == [via |-> via, inputs |-> inputs]
EntryOutput(at, st, nodes) == [at |-> at, st |-> st, nodes |-> nodes]

\* ContextualizeNode.run: the update it returns for the text the model gives
ContextualizeNode_update(st, rewritten_text) ==
    IF Len(st.messages) <= 1 THEN [messages |-> st.messages]
    ELSE [rewritten_query |-> rewritten_text]

InitEntry ==
    /\ PipelineAtRest
    /\ fn_in \in {EntryInput("chat_service", workflow_inputs(req)) : req \in Requests}
            \cup {EntryInput("direct", [messages |-> msgs, retry_count |-> 0]) :
                     msgs \in SeqsUpTo(HistoryMessages, MaxHistory)}
    /\ fn_out = EntryOutput("input", EmptyState, << >>)

\* workflow.ainvoke(inputs): the inputs are written and the entry point taken
Invoke ==
    /\ fn_out.at = "input"
    /\ \E st \in {Merge(EmptyState, fn_in.inputs)} :
          fn_out' = EntryOutput(entry_point(st), st, << >>)
    /\ UNCHANGED << pipeline_vars, fn_in >>

\* the node returns and the edge to the router is taken, or its model raises
ContextualizeNode_run ==
    /\ fn_out.at = "contextualize"
    /\ \/ \E rewritten_text \in {txtRewritten, << >>} :
             fn_out' = EntryOutput("router",
                          Merge(fn_out.st,
                                ContextualizeNode_update(fn_out.st, rewritten_text)),
                          Append(fn_out.nodes, "contextualize"))
       \/ fn_out' = EntryOutput("raised", fn_out.st,
                                Append(fn_out.nodes, "contextualize"))
    /\ UNCHANGED << pipeline_vars, fn_in >>

NextEntryPoint ==
    \/ Invoke
    \/ ContextualizeNode_run

SpecEntry == InitEntry /\ [][NextEntryPoint]_vars

====
